---- MODULE Spec2Model ----
(***************************************************************************)
(* Model of the document ingestion and embedding pipeline of the           *)
(* ai-service: page text / table extraction (extract_table.py), image      *)
(* extraction with deduplication (extract_images.py), per-document         *)
(* ingestion and directory runs (ingestion_operations.py), chunking and    *)
(* the streaming embedding pipeline (document_embedding_service.py), and   *)
(* of the chat route with its session histories (chat_routes.py).          *)
(*                                                                         *)
(* Text is a sequence of characters (one-character strings); " " stands    *)
(* for any whitespace and "\n" is the separator written by "\n".join.      *)
(* A langchain Document is a record: its metadata keys are the record's    *)
(* fields and page_content is the field `content`; a metadata key that the *)
(* code does not set is a field the record does not have.                  *)
(***************************************************************************)
EXTENDS Integers, Sequences, FiniteSets, TLC

VARIABLES
    \* ---- one page through _get_table_bboxes / _extract_page_text_excluding_tables
    tpc,            \* position: "detect", "extract", "done" ("idle" when unused)
    page_blocks,    \* page.get_text("blocks")
    found_tables,   \* the bboxes pl_page.find_tables() holds for the page
    table_bboxes,   \* the list _get_table_bboxes returned
    detect_failed,  \* find_tables raised for this page
    page_text,      \* the string _extract_page_text_excluding_tables returned
    \* ---- one call of extract_tables_and_text_in_order
    xpc,            \* position: "open", "batch", "page", "table", "done", "raised"
    pdf_path,       \* the pdf_path argument (a file is named by a number)
    batch_size,     \* the batch_size argument
    reconstruct,    \* the reconstruct_with_llm argument
    total_pages,    \* len(pdf_doc), also len(base64_images)
    batch_start,    \* loop variable of the batch loop
    page_idx,       \* loop variable of _append_page_text_docs
    order_index,    \* the order counter
    xdocs,          \* the list docs being built, returned at "done"
    page_log,       \* history: for each page visited, the text extracted from it
    llm_calls,      \* history: for each table-reconstruction call, its pages and outcome
    \* ---- one call of build_image_docs_from_pdf_with_ai
    ipc,            \* position: "start", "page", "image", "done", "raised"
    img_path,       \* the pdf_path argument
    img_pages,      \* len(pdf_doc)
    page_index,     \* loop variable of the page loop
    image_index,    \* loop variable of the image loop
    page_images,    \* page.get_images(full=True) of the current page, extracted
    seen_hashes,    \* the dedup set of the call
    rag_docs,       \* the list rag_docs being built, returned at "done"
    image_log,      \* history: every image visited, with its page
    \* ---- one call of ingest_pdf
    gpc,            \* position: "start", "extract", "images", "done", "raised"
    ingest_path,    \* the pdf_path argument
    ingest_docs,    \* the list docs being built, returned at "done"
    llm,            \* the llm argument, from line 35 on the client in use
    clients_built,  \* history: the number of calls of build_bedrock_vision_client
    llm_passed,     \* history: the llm argument of each extraction called, in order
    \* ---- one call of load_documents
    lpc,            \* position: "loop", "ingest", "done"
    n_files,        \* the number of files glob.glob returned
    file_idx,       \* the number of files the loop has finished
    loaded,         \* the list docs being built, returned at "done"
    results,        \* history: for each file, how its ingest_pdf call ended
    vision_llm,     \* the vision_llm argument
    \* ---- one call of build_semantic_chunks_per_doc or chunk_document
    cpc,            \* position: "called", "done"
    chunk_fn,       \* which of the two was called: "per_doc", "chunk_document"
    all_docs,       \* the list of Documents passed in
    source_name,    \* the source_name argument of chunk_document
    split_docs,     \* the list split_docs being built, returned at "done"
    \* ---- one run of the generator embed_document_with_progress
    epc,            \* position: "start", the yield the generator is suspended at, a loop, "raising", "end", "closed"
    s3_key,         \* the s3_key argument: [stem, suffix]
    bucket_configured,  \* settings.AWS_S3_BUCKET is set
    temp_file_path, \* the local temp_file_path: NoPath or the path download returned
    temp_on_disk,   \* the temporary file download_file_from_s3 made exists
    embed_docs,     \* the local docs: the list load_single_document returned
    total_chunks,   \* the local total_chunks
    embedding_vectors,  \* the list embedding_vectors
    collection_exists,  \* the target collection is in the vector store
    records,        \* the records of the run in the collection, in the order of their insertion
    events,         \* history: the events the generator has yielded, in order
    exception,      \* the exception raised inside the try statement, NoException if none
    call_log,       \* history: the calls made to S3, the embedding model and the store
    \* ---- the calls of ensure_weaviate_collection for one collection name
    ens_pc,         \* for each caller, its position: "list", "create", "done", "raised" ("idle": no call)
    ens_existing,   \* for each caller, whether the name was in the list list_all gave it
    create_log,     \* history: the callers of collections.create, and whether the store accepted
    \* ---- several calls of build_image_docs_from_pdf_with_ai under way at once,
    \* ---- each with its own locals
    call_pc,        \* for each call, its position: "loop", "done", "raised" ("idle": no call)
    call_path,      \* for each call, its pdf_path argument
    call_images,    \* for each call, the images of its document in the order the loops visit them
    call_pos,       \* for each call, the number of images its loops have finished
    call_seen,      \* for each call, its local seen_hashes
    call_docs,      \* for each call, its local rag_docs, returned at "done"
    \* ---- one call of build_vectorstore; its split_docs, embedding_vectors and the
    \* ---- store are the variables of those names above
    bpc,            \* position: "start", "embed", "save", "ensure", "insert", "done", "raised"
    save_flags,     \* the arguments save_chunks_txt and save_embeddings_json
    artifacts,      \* history: the debug files save_chunks_and_embeddings has written
    \* ---- the consumer of the event stream of embed_document
    consumer_gone,  \* the client of the streaming response has disconnected
    \* ---- the requests of chat_stream and their event generators
    chat_memory,    \* request.app.state.chat_memory: for each session, its deque
    req_pc,         \* for each request, its position: "start", "yielded", "error_yielded", "done", "closed" ("idle": not made)
    req_session,    \* for each request, its local session_id
    req_message,    \* for each request, payload.message
    chain_rest,     \* for each request, the chunks astream has yet to give
    assistant_chunks,   \* for each request, the local assistant_chunks
    client_disconnected,    \* for each request, the local client_disconnected
    sse_events,     \* history: for each request, the strings its generator has yielded
    \* ---- the world outside the calls
    image_dir_ok,   \* the image output directory is absolute and can be created
    caption_calls,  \* history: the image bytes of every caption request sent
    files_written   \* history: every file written by save_binary_file

textVars == <<tpc, page_blocks, found_tables, table_bboxes, detect_failed, page_text>>

tableVars ==
    <<xpc, pdf_path, batch_size, reconstruct, total_pages, batch_start, page_idx,
      order_index, xdocs, page_log, llm_calls>>

imageVars ==
    <<ipc, img_path, img_pages, page_index, image_index, page_images, seen_hashes,
      rag_docs, image_log>>

worldVars == <<image_dir_ok, caption_calls, files_written>>

ingestVars == <<gpc, ingest_path, ingest_docs, llm, clients_built, llm_passed>>

loadVars == <<lpc, n_files, file_idx, loaded, results, vision_llm>>

chunkVars == <<cpc, chunk_fn, all_docs, source_name, split_docs>>

embedVars ==
    <<epc, s3_key, bucket_configured, temp_file_path, temp_on_disk, embed_docs, total_chunks,
      embedding_vectors, collection_exists, records, events, exception, call_log>>

ensureVars == <<ens_pc, ens_existing, create_log>>

callVars == <<call_pc, call_path, call_images, call_pos, call_seen, call_docs>>

batchVars == <<bpc, save_flags, artifacts>>

streamVars == <<consumer_gone>>

chatVars ==
    <<chat_memory, req_pc, req_session, req_message, chain_rest, assistant_chunks,
      client_disconnected, sse_events>>

vars ==
    <<textVars, tableVars, imageVars, ingestVars, loadVars, worldVars, chunkVars, embedVars,
      ensureVars, callVars, batchVars, streamVars, chatVars>>

----------------------------------------------------------------------------
(* Strings *)

Whitespace == {" ", "\n"}

RECURSIVE lstrip(_)
lstrip(s) ==
    IF s # <<>> /\ Head(s) \in Whitespace THEN lstrip(Tail(s)) ELSE s

RECURSIVE rstrip(_)
rstrip(s) ==
    IF s # <<>> /\ s[Len(s)] \in Whitespace
    THEN rstrip(SubSeq(s, 1, Len(s) - 1))
    ELSE s

\* str.strip()
strip(s) == rstrip(lstrip(s))

\* "\n".join(parts)
RECURSIVE join_lines(_)
join_lines(parts) ==
    IF parts = <<>> THEN <<>>
    ELSE IF Len(parts) = 1 THEN parts[1]
    ELSE parts[1] \o <<"\n">> \o join_lines(Tail(parts))

----------------------------------------------------------------------------
(* extract_table.py: page text outside the table regions *)

\* faulty variant: a centre on the boundary of a box counts as outside it
center_in_bbox_strict(block, bb) ==
    /\ 2 * bb[1] < block[1] + block[3]
    /\ block[1] + block[3] < 2 * bb[3]
    /\ 2 * bb[2] < block[2] + block[4]
    /\ block[2] + block[4] < 2 * bb[4]

\* A block is the tuple (x0, y0, x1, y1, text, ...) of page.get_text("blocks");
\* a bbox is (bx0, by0, bx1, by1). The centre (x0 + x1) / 2 is compared without
\* the division: bx0 <= (x0 + x1) / 2  <=>  2 * bx0 <= x0 + x1.
center_in_bbox(block, bb) ==
    /\ 2 * bb[1] <= block[1] + block[3]
    /\ block[1] + block[3] <= 2 * bb[3]
    /\ 2 * bb[2] <= block[2] + block[4]
    /\ block[2] + block[4] <= 2 * bb[4]

RECURSIVE outside_all(_, _)
outside_all(block, bboxes) ==
    IF bboxes = <<>> THEN TRUE
    ELSE IF center_in_bbox(block, Head(bboxes)) THEN FALSE
    ELSE outside_all(block, Tail(bboxes))

block_outside_any_bbox(block, bboxes) ==
    IF bboxes = <<>> \/ Len(block) < 5 THEN TRUE
    ELSE outside_all(block, bboxes)

\* the list filtered_blocks after the loop over the first blocks
RECURSIVE filtered_blocks(_, _)
filtered_blocks(blocks, bboxes) ==
    IF blocks = <<>> THEN <<>>
    ELSE LET block == Head(blocks)
             rest == filtered_blocks(Tail(blocks), bboxes)
         IN  IF Len(block) < 5 THEN rest
             ELSE IF block[5] = <<>> \/ strip(block[5]) = <<>> THEN rest
             ELSE IF ~block_outside_any_bbox(block, bboxes) THEN rest
             ELSE <<strip(block[5])>> \o rest

extract_page_text_excluding_tables(blocks, bboxes) ==
    LET kept == filtered_blocks(blocks, bboxes)
    IN  IF kept = <<>> THEN <<>> ELSE join_lines(kept)

\* find_tables() raising gives the empty list; otherwise the bbox of every table
get_table_bboxes(tables, raises) ==
    IF raises THEN <<>> ELSE tables

----------------------------------------------------------------------------
(* The pages one call is tried on *)

MaxBlocks == 2

Coords == {0, 1}

Rects == {<<x0, y0, x1, y1>> : x0 \in Coords, y0 \in Coords, x1 \in Coords, y1 \in Coords}

BlockRects == {r \in Rects : r[1] <= r[3] /\ r[2] <= r[4]}

BlockTexts == {<<" ">>, <<" ", "a", "\n">>, <<"b", "\n", "c">>}

Blocks ==
    {r \o <<t>> : r \in BlockRects, t \in BlockTexts} \cup {<<0, 0, 1, 1>>}

RECURSIVE SeqsUpTo(_, _)
SeqsUpTo(S, n) ==
    IF n = 0 THEN {<<>>}
    ELSE LET shorter == SeqsUpTo(S, n - 1)
         IN  shorter \cup {Append(s, x) : s \in {q \in shorter : Len(q) = n - 1}, x \in S}

BboxLists ==
    {<<>>} \cup {<<b>> : b \in BlockRects}
           \cup {<<<<0, 0, 0, 0>>, <<1, 1, 1, 1>>>>, <<<<0, 0, 1, 0>>, <<0, 1, 1, 1>>>>,
                 <<<<1, 0, 1, 1>>, <<0, 0, 0, 1>>>>}

TextIdle ==
    /\ tpc = "idle"
    /\ page_blocks = <<>>
    /\ found_tables = <<>>
    /\ table_bboxes = <<>>
    /\ detect_failed = FALSE
    /\ page_text = <<>>

TextInit ==
    /\ tpc = "detect"
    /\ page_blocks \in SeqsUpTo(Blocks, MaxBlocks)
    /\ found_tables \in BboxLists
    /\ table_bboxes = <<>>
    /\ detect_failed = FALSE
    /\ page_text = <<>>

\* _append_page_text_docs line 241: table_bboxes = _get_table_bboxes(pl_page)
GetTableBboxes ==
    /\ tpc = "detect"
    /\ \E raises \in BOOLEAN :
         /\ detect_failed' = raises
         /\ table_bboxes' = get_table_bboxes(found_tables, raises)
    /\ tpc' = "extract"
    /\ UNCHANGED <<page_blocks, found_tables, page_text>>

\* _append_page_text_docs line 242: text = _extract_page_text_excluding_tables(...)
ExtractPageText ==
    /\ tpc = "extract"
    /\ page_text' = extract_page_text_excluding_tables(page_blocks, table_bboxes)
    /\ tpc' = "done"
    /\ UNCHANGED <<page_blocks, found_tables, table_bboxes, detect_failed>>

OnlyText == UNCHANGED <<tableVars, imageVars, ingestVars, loadVars, worldVars, chunkVars, embedVars, ensureVars, callVars, batchVars, streamVars, chatVars>>

TextNext ==
    \/ GetTableBboxes /\ OnlyText
    \/ ExtractPageText /\ OnlyText

----------------------------------------------------------------------------
(* extract_table.py: extract_tables_and_text_in_order *)

\* zoom: int = 3
Zoom == 3

\* batch_size: int = 5
DefaultBatchSize == 5

NoDoc == [type |-> "None"]

\* faulty variant: the response is tested before it is stripped
build_tables_doc_unstripped(path, n_images, b_start, b_end, p_start, p_end, bsize, response, order) ==
    IF response = <<>> THEN NoDoc
    ELSE [type |-> "table", source_pdf |-> path, source |-> path,
          page_start |-> p_start, page_end |-> p_end, order |-> order,
          batch_size |-> bsize, zoom |-> Zoom, content |-> strip(response)]

\* _process_with_llm returns the stripped response text; _build_tables_doc_for_batch
\* returns None for no images or an empty markdown_output, else the table Document.
build_tables_doc_for_batch(path, n_images, b_start, b_end, p_start, p_end, bsize, response, order) ==
    LET batch_images == IF b_end <= n_images THEN b_end - b_start
                        ELSE IF b_start < n_images THEN n_images - b_start ELSE 0
        markdown_output == strip(response)
    IN  IF batch_images = 0 THEN NoDoc
        ELSE IF markdown_output = <<>> THEN NoDoc
        ELSE [type |-> "table", source_pdf |-> path, source |-> path,
              page_start |-> p_start, page_end |-> p_end, order |-> order,
              batch_size |-> bsize, zoom |-> Zoom, content |-> markdown_output]

\* faulty variant: the page index is used as the order
page_doc_ordered_by_page(path, idx, order, text) ==
    [type |-> "page", source_pdf |-> path, source |-> path,
     page |-> idx + 1, order |-> idx, content |-> text]

\* lines 247-258: the page-text Document
page_doc(path, idx, order, text) ==
    [type |-> "page", source_pdf |-> path, source |-> path,
     page |-> idx + 1, order |-> order, content |-> text]

\* faulty variant: the last batch is not cut at the last page
batch_end_unclamped == batch_start + batch_size

\* line 190: min(batch_start + batch_size, total_pages)
batch_end == IF batch_start + batch_size <= total_pages
             THEN batch_start + batch_size ELSE total_pages

TableIdle ==
    /\ xpc = "idle"
    /\ pdf_path = 0
    /\ batch_size = 0
    /\ reconstruct = FALSE
    /\ total_pages = 0
    /\ batch_start = 0
    /\ page_idx = 0
    /\ order_index = 0
    /\ xdocs = <<>>
    /\ page_log = <<>>
    /\ llm_calls = <<>>

\* the state a call extract_tables_and_text_in_order(path, batch_size=b, ...) starts in
TableCalled(path, b, r) ==
    /\ xpc = "open"
    /\ pdf_path = path
    /\ batch_size = b
    /\ reconstruct = r
    /\ total_pages = 0
    /\ batch_start = 0
    /\ page_idx = 0
    /\ order_index = 0
    /\ xdocs = <<>>
    /\ page_log = <<>>
    /\ llm_calls = <<>>

\* lines 182-187: pdf_to_base64_images, fitz.open, pdfplumber.open; the file has
\* n pages, or one of the three raises (missing or unreadable file)
OpenPdf(page_counts) ==
    /\ xpc = "open"
    /\ \/ \E n \in page_counts :
            /\ total_pages' = n
            /\ xpc' = "batch"
       \/ /\ xpc' = "raised"
          /\ UNCHANGED total_pages
    /\ UNCHANGED <<pdf_path, batch_size, reconstruct, batch_start, page_idx,
                   order_index, xdocs, page_log, llm_calls>>

\* line 189: for batch_start in range(0, total_pages, batch_size); line 223: return docs
NextBatch ==
    /\ xpc = "batch"
    /\ IF batch_start < total_pages
       THEN /\ xpc' = "page"
            /\ page_idx' = batch_start
       ELSE /\ xpc' = "done"
            /\ UNCHANGED page_idx
    /\ UNCHANGED <<pdf_path, batch_size, reconstruct, total_pages, batch_start,
                   order_index, xdocs, page_log, llm_calls>>

\* faulty variant: _get_table_bboxes without its except clause, the exception of
\* find_tables leaves the function
AppendPageTextDocUncaught(layouts_at) ==
    /\ xpc = "page"
    /\ page_idx < batch_end
    /\ \E layout \in layouts_at[page_idx] :
         LET text == extract_page_text_excluding_tables(layout.blocks, layout.tables)
         IN  IF layout.raises
             THEN /\ xpc' = "raised"
                  /\ UNCHANGED <<page_log, xdocs, order_index, page_idx>>
             ELSE /\ page_log' = Append(page_log, [page |-> page_idx + 1, text |-> text,
                                                   layout |-> layout])
                  /\ IF text = <<>>
                     THEN UNCHANGED <<xdocs, order_index>>
                     ELSE /\ xdocs' = Append(xdocs, page_doc(pdf_path, page_idx, order_index, text))
                          /\ order_index' = order_index + 1
                  /\ page_idx' = page_idx + 1
                  /\ xpc' = IF page_idx + 1 < batch_end THEN "page" ELSE "table"
    /\ UNCHANGED <<pdf_path, batch_size, reconstruct, total_pages, batch_start, llm_calls>>

\* one iteration of the loop of _append_page_text_docs (lines 237-259): the page
\* has one of the layouts layouts_at[page_idx]
AppendPageTextDoc(layouts_at) ==
    /\ xpc = "page"
    /\ page_idx < batch_end
    /\ \E layout \in layouts_at[page_idx] :
         LET bboxes == get_table_bboxes(layout.tables, layout.raises)
             text == extract_page_text_excluding_tables(layout.blocks, bboxes)
         IN  /\ page_log' = Append(page_log, [page |-> page_idx + 1, text |-> text,
                                              layout |-> layout])
             /\ IF text = <<>>
                THEN UNCHANGED <<xdocs, order_index>>
                ELSE /\ xdocs' = Append(xdocs, page_doc(pdf_path, page_idx, order_index, text))
                     /\ order_index' = order_index + 1
    /\ page_idx' = page_idx + 1
    /\ xpc' = IF page_idx + 1 < batch_end THEN "page" ELSE "table"
    /\ UNCHANGED <<pdf_path, batch_size, reconstruct, total_pages, batch_start, llm_calls>>

\* lines 206-221: the table reconstruction of the batch; the model call returns
\* one of the responses or raises, and an exception leaves the function
BuildTablesDocForBatch(responses) ==
    /\ xpc = "table"
    /\ IF ~reconstruct
       THEN /\ xpc' = "batch"
            /\ UNCHANGED <<xdocs, order_index, llm_calls>>
       ELSE \/ \E response \in responses :
                 LET table_doc == build_tables_doc_for_batch(pdf_path, total_pages,
                                      batch_start, batch_end, batch_start + 1, batch_end,
                                      batch_size, response, order_index)
                 IN  /\ llm_calls' = Append(llm_calls,
                            [page_start |-> batch_start + 1, page_end |-> batch_end,
                             raised |-> FALSE, response |-> response])
                     /\ IF table_doc = NoDoc
                        THEN UNCHANGED <<xdocs, order_index>>
                        ELSE /\ xdocs' = Append(xdocs, table_doc)
                             /\ order_index' = order_index + 1
                     /\ xpc' = "batch"
            \/ /\ llm_calls' = Append(llm_calls,
                      [page_start |-> batch_start + 1, page_end |-> batch_end,
                       raised |-> TRUE, response |-> <<>>])
               /\ xpc' = "raised"
               /\ UNCHANGED <<xdocs, order_index>>
    /\ batch_start' = IF xpc' = "batch" THEN batch_start + batch_size ELSE batch_start
    /\ UNCHANGED <<pdf_path, batch_size, reconstruct, total_pages, page_idx, page_log>>

----------------------------------------------------------------------------
(* extract_images.py: build_image_docs_from_pdf_with_ai *)

\* An extracted image is base_image: its bytes under "image" (<<>> when the
\* stream is empty or the key missing) and its extension under "ext".
\* hashlib.sha256(image_bytes).hexdigest(): distinct contents, distinct digests
image_hash(image_bytes) == <<"sha256", image_bytes>>

\* faulty variant: no stream counts as empty
never_empty(image_bytes) == FALSE

\* lines 265-268: image_bytes = base_image.get("image") or b""; not image_bytes
empty_stream(image_bytes) == image_bytes = <<>>

\* faulty variant: no image counts as seen before
never_duplicate(img_hash, seen) == FALSE

\* line 272: img_hash in seen_hashes
is_duplicate(img_hash, seen) == img_hash \in seen

\* os.path.splitext(os.path.basename(pdf_path))[0], a string of characters. The
\* files of one directory have different names: the first is a.pdf and the stem
\* of each further one is the stem before it followed by _p1_img1
RECURSIVE pdf_stem(_)
pdf_stem(path) ==
    IF path <= 1 THEN <<"a">>
    ELSE pdf_stem(path - 1) \o <<"_", "p", "1", "_", "i", "m", "g", "1">>

\* str(n) for n >= 0
RECURSIVE decimal(_)
decimal(n) ==
    LET digit(d) == <<"0", "1", "2", "3", "4", "5", "6", "7", "8", "9">>[d + 1]
    IN  IF n < 10 THEN <<digit(n)>> ELSE decimal(n \div 10) \o <<digit(n % 10)>>

\* faulty variant: the name does not tell the file the image is from
image_name_of_page(path, p_index, i_index, image_ext) ==
    <<"_", "p">> \o decimal(p_index + 1) \o <<"_", "i", "m", "g">> \o decimal(i_index + 1)
      \o <<".", IF image_ext = "" THEN "png" ELSE image_ext>>

\* f"{pdf_name}_p{page_index + 1}_img{image_index + 1}.{ext}", the extension
\* being one character of the model's strings
image_name(path, p_index, i_index, image_ext) ==
    pdf_stem(path) \o <<"_", "p">> \o decimal(p_index + 1) \o <<"_", "i", "m", "g">>
      \o decimal(i_index + 1) \o <<".", IF image_ext = "" THEN "png" ELSE image_ext>>

image_doc(path, p_index, image_path, img_hash, description) ==
    [type |-> "image", source_pdf |-> path, source |-> path, page |-> p_index + 1,
     image_path |-> image_path, image_hash |-> img_hash, content |-> description]

ImageIdle ==
    /\ ipc = "idle"
    /\ img_path = 0
    /\ img_pages = 0
    /\ page_index = 0
    /\ image_index = 0
    /\ page_images = <<>>
    /\ seen_hashes = {}
    /\ rag_docs = <<>>
    /\ image_log = <<>>

WorldInit ==
    /\ image_dir_ok = TRUE
    /\ caption_calls = <<>>
    /\ files_written = <<>>

\* the state a call build_image_docs_from_pdf_with_ai(path, ...) starts in
ImagesCalled(path) ==
    /\ ipc = "start"
    /\ img_path = path
    /\ img_pages = 0
    /\ page_index = 0
    /\ image_index = 0
    /\ page_images = <<>>
    /\ seen_hashes = {}
    /\ rag_docs = <<>>
    /\ image_log = <<>>

\* lines 213-220: ensure_existing_file and fitz.open raise for a missing or
\* unreadable file, resolve_image_output_dir for a directory that is not absolute
\* or cannot be created
OpenImages(page_counts) ==
    /\ ipc = "start"
    /\ \/ /\ image_dir_ok
          /\ \E n \in page_counts :
               /\ img_pages' = n
               /\ ipc' = "page"
       \/ /\ ipc' = "raised"
          /\ UNCHANGED img_pages
    /\ UNCHANGED <<img_path, page_index, image_index, page_images, seen_hashes,
                   rag_docs, image_log>>
    /\ UNCHANGED worldVars

\* line 221, 224: the next page and its images; line 240: return rag_docs
EnterPage(images_at) ==
    /\ ipc = "page"
    /\ IF page_index < img_pages
       THEN \E images \in images_at[page_index] :
              /\ page_images' = images
              /\ image_index' = 0
              /\ IF images = <<>>
                 THEN /\ page_index' = page_index + 1
                      /\ ipc' = "page"
                 ELSE /\ ipc' = "image"
                      /\ UNCHANGED page_index
       ELSE /\ ipc' = "done"
            /\ UNCHANGED <<page_images, image_index, page_index>>
    /\ UNCHANGED <<img_path, img_pages, seen_hashes, rag_docs, image_log>>
    /\ UNCHANGED worldVars

\* faulty variant: the file is written before the caption is asked for
BuildImageDocSaveFirst(responses) ==
    /\ ipc = "image"
    /\ LET base_image == page_images[image_index + 1]
           image_bytes == base_image.image
           img_hash == image_hash(image_bytes)
           image_path == image_name(img_path, page_index, image_index, base_image.ext)
           next_pc == IF image_index + 1 < Len(page_images) THEN "image" ELSE "page"
       IN  /\ image_log' = Append(image_log, [page |-> page_index + 1,
                                  index |-> image_index + 1, image |-> image_bytes])
           /\ IF empty_stream(image_bytes)
              THEN /\ ipc' = next_pc
                   /\ UNCHANGED <<seen_hashes, rag_docs, caption_calls, files_written>>
              ELSE IF is_duplicate(img_hash, seen_hashes)
              THEN /\ ipc' = next_pc
                   /\ UNCHANGED <<seen_hashes, rag_docs, caption_calls, files_written>>
              ELSE /\ seen_hashes' = seen_hashes \cup {img_hash}
                   /\ caption_calls' = Append(caption_calls, image_bytes)
                   /\ files_written' = Append(files_written,
                          [path |-> image_path, data |-> image_bytes])
                   /\ \/ /\ ipc' = "raised"
                         /\ UNCHANGED rag_docs
                      \/ \E response \in responses :
                           /\ rag_docs' = Append(rag_docs,
                                  image_doc(img_path, page_index, image_path, img_hash,
                                            strip(response)))
                           /\ ipc' = next_pc
    /\ image_index' = IF ipc' = "raised" THEN image_index ELSE image_index + 1
    /\ page_index' = IF ipc' = "page" THEN page_index + 1 ELSE page_index
    /\ UNCHANGED <<img_path, img_pages, page_images, image_dir_ok>>

\* one iteration of the image loop: _build_image_doc_from_pdf_image (lines 263-303)
\* and lines 237-238. The caption request answers one of the responses, or it (or
\* save_binary_file after it) raises and the exception leaves the function.
BuildImageDoc(responses) ==
    /\ ipc = "image"
    /\ LET base_image == page_images[image_index + 1]
           image_bytes == base_image.image
           img_hash == image_hash(image_bytes)
           image_path == image_name(img_path, page_index, image_index, base_image.ext)
           next_pc == IF image_index + 1 < Len(page_images) THEN "image" ELSE "page"
       IN  /\ image_log' = Append(image_log, [page |-> page_index + 1,
                                  index |-> image_index + 1, image |-> image_bytes])
           /\ IF empty_stream(image_bytes)
              THEN /\ ipc' = next_pc
                   /\ UNCHANGED <<seen_hashes, rag_docs, caption_calls, files_written>>
              ELSE IF is_duplicate(img_hash, seen_hashes)
              THEN /\ ipc' = next_pc
                   /\ UNCHANGED <<seen_hashes, rag_docs, caption_calls, files_written>>
              ELSE /\ seen_hashes' = seen_hashes \cup {img_hash}
                   /\ caption_calls' = Append(caption_calls, image_bytes)
                   /\ \/ /\ ipc' = "raised"
                         /\ UNCHANGED <<rag_docs, files_written>>
                      \/ \E response \in responses :
                           /\ files_written' = Append(files_written,
                                  [path |-> image_path, data |-> image_bytes])
                           /\ rag_docs' = Append(rag_docs,
                                  image_doc(img_path, page_index, image_path, img_hash,
                                            strip(response)))
                           /\ ipc' = next_pc
    /\ image_index' = IF ipc' = "raised" THEN image_index ELSE image_index + 1
    /\ page_index' = IF ipc' = "page" THEN page_index + 1 ELSE page_index
    /\ UNCHANGED <<img_path, img_pages, page_images, image_dir_ok>>

CallsIdle ==
    /\ call_pc = <<>>
    /\ call_path = <<>>
    /\ call_images = <<>>
    /\ call_pos = <<>>
    /\ call_seen = <<>>
    /\ call_docs = <<>>

\* faulty variant: one dedup set shared by every call
seen_hashes_shared(k) == UNION {call_seen[j] : j \in DOMAIN call_seen}

\* line 218: seen_hashes is a local of the call, made anew when the call begins
seen_hashes_of(k) == call_seen[k]

\* one iteration of the image loop (lines 224-238, 263-303) in call k, on the
\* locals of that call. The pages of the document are taken as one page whose
\* images are call_images[k]; line 240 is reached after the last image.
CallBuildImageDoc(k, responses) ==
    /\ call_pc[k] = "loop"
    /\ LET base_image == call_images[k][call_pos[k] + 1]
           image_bytes == base_image.image
           img_hash == image_hash(image_bytes)
           image_path == image_name(call_path[k], 0, call_pos[k], base_image.ext)
           next_pc == IF call_pos[k] + 1 < Len(call_images[k]) THEN "loop" ELSE "done"
       IN  IF empty_stream(image_bytes) \/ is_duplicate(img_hash, seen_hashes_of(k))
           THEN /\ call_pc' = [call_pc EXCEPT ![k] = next_pc]
                /\ call_pos' = [call_pos EXCEPT ![k] = @ + 1]
                /\ UNCHANGED <<call_seen, call_docs, caption_calls, files_written>>
           ELSE /\ call_seen' = [call_seen EXCEPT ![k] = @ \cup {img_hash}]
                /\ caption_calls' = Append(caption_calls, image_bytes)
                /\ \/ /\ call_pc' = [call_pc EXCEPT ![k] = "raised"]
                      /\ UNCHANGED <<call_docs, call_pos, files_written>>
                   \/ \E response \in responses :
                        /\ files_written' = Append(files_written,
                               [path |-> image_path, data |-> image_bytes])
                        /\ call_docs' = [call_docs EXCEPT ![k] = Append(@,
                               image_doc(call_path[k], 0, image_path, img_hash,
                                         strip(response)))]
                        /\ call_pc' = [call_pc EXCEPT ![k] = next_pc]
                        /\ call_pos' = [call_pos EXCEPT ![k] = @ + 1]
    /\ UNCHANGED <<call_path, call_images, image_dir_ok>>

----------------------------------------------------------------------------
(* ingestion_operations.py: ingest_pdf and load_documents *)

\* llm=None, the default of the parameter
NoLlm == [kind |-> "none", id |-> 0]

\* a client the caller made and passed in
SuppliedLlm == [kind |-> "supplied", id |-> 0]

\* line 35: every call of build_bedrock_vision_client gives a new client; n is
\* the number of the call
build_bedrock_vision_client(n) == [kind |-> "built", id |-> n]

IngestIdle ==
    /\ gpc = "idle"
    /\ ingest_path = 0
    /\ ingest_docs = <<>>
    /\ llm = NoLlm
    /\ clients_built = 0
    /\ llm_passed = <<>>

LoadIdle ==
    /\ lpc = "idle"
    /\ n_files = 0
    /\ file_idx = 0
    /\ loaded = <<>>
    /\ results = <<>>
    /\ vision_llm = NoLlm

\* lines 34-45: a client is built when none was passed;
\* resolve_image_output_dir raises for a directory that is not
\* absolute or cannot be created; otherwise extract_tables_and_text_in_order is
\* called with the client, the default batch_size and reconstruct_with_llm=True
IngestStart ==
    /\ gpc = "start"
    /\ IF llm = NoLlm
       THEN /\ llm' = build_bedrock_vision_client(clients_built + 1)
            /\ clients_built' = clients_built + 1
       ELSE UNCHANGED <<llm, clients_built>>
    /\ IF image_dir_ok
       THEN /\ gpc' = "extract"
            /\ llm_passed' = Append(llm_passed,
                   [callee |-> "extract_tables_and_text_in_order",
                    path |-> ingest_path, llm |-> llm'])
            /\ xpc' = "open"
            /\ pdf_path' = ingest_path
            /\ batch_size' = DefaultBatchSize
            /\ reconstruct' = TRUE
            /\ total_pages' = 0
            /\ batch_start' = 0
            /\ page_idx' = 0
            /\ order_index' = 0
            /\ xdocs' = <<>>
            /\ page_log' = <<>>
            /\ llm_calls' = <<>>
       ELSE /\ gpc' = "raised"
            /\ UNCHANGED <<tableVars, llm_passed>>
    /\ UNCHANGED <<ingest_path, ingest_docs>>
    /\ UNCHANGED <<textVars, imageVars, loadVars, worldVars, chunkVars, embedVars, ensureVars, callVars, batchVars, streamVars, chatVars>>

\* faulty variant: the exception of the extraction is swallowed and the image
\* extraction is called all the same
IngestAfterExtractLenient ==
    /\ gpc = "extract"
    /\ xpc \in {"done", "raised"}
    /\ ingest_docs' = ingest_docs \o xdocs
    /\ gpc' = "images"
    /\ ipc' = "start"
    /\ img_path' = ingest_path
    /\ img_pages' = 0
    /\ page_index' = 0
    /\ image_index' = 0
    /\ page_images' = <<>>
    /\ seen_hashes' = {}
    /\ rag_docs' = <<>>
    /\ image_log' = <<>>
    /\ llm_passed' = Append(llm_passed,
           [callee |-> "build_image_docs_from_pdf_with_ai",
            path |-> ingest_path, llm |-> llm])
    /\ UNCHANGED <<ingest_path, llm, clients_built>>
    /\ UNCHANGED <<textVars, tableVars, loadVars, worldVars, chunkVars, embedVars, ensureVars, callVars, batchVars, streamVars, chatVars>>

\* lines 41-52: an exception of the extraction leaves ingest_pdf; its result is
\* appended to docs and build_image_docs_from_pdf_with_ai is called
IngestAfterExtract ==
    /\ gpc = "extract"
    /\ xpc \in {"done", "raised"}
    /\ IF xpc = "done"
       THEN /\ ingest_docs' = ingest_docs \o xdocs
            /\ gpc' = "images"
            /\ ipc' = "start"
            /\ img_path' = ingest_path
            /\ img_pages' = 0
            /\ page_index' = 0
            /\ image_index' = 0
            /\ page_images' = <<>>
            /\ seen_hashes' = {}
            /\ rag_docs' = <<>>
            /\ image_log' = <<>>
            /\ llm_passed' = Append(llm_passed,
                   [callee |-> "build_image_docs_from_pdf_with_ai",
                    path |-> ingest_path, llm |-> llm])
       ELSE /\ gpc' = "raised"
            /\ UNCHANGED <<ingest_docs, imageVars, llm_passed>>
    /\ UNCHANGED <<ingest_path, llm, clients_built>>
    /\ UNCHANGED <<textVars, tableVars, loadVars, worldVars, chunkVars, embedVars, ensureVars, callVars, batchVars, streamVars, chatVars>>

\* faulty variant: the image units are put before the ordered units
IngestAfterImagesFirst ==
    /\ gpc = "images"
    /\ ipc \in {"done", "raised"}
    /\ IF ipc = "done"
       THEN /\ ingest_docs' = rag_docs \o ingest_docs
            /\ gpc' = "done"
       ELSE /\ gpc' = "raised"
            /\ UNCHANGED ingest_docs
    /\ UNCHANGED <<ingest_path, llm, clients_built, llm_passed>>
    /\ UNCHANGED <<textVars, tableVars, imageVars, loadVars, worldVars, chunkVars, embedVars, ensureVars, callVars, batchVars, streamVars, chatVars>>

\* lines 48-55: an exception of the image extraction leaves ingest_pdf; its result
\* is appended to docs, which is returned
IngestAfterImages ==
    /\ gpc = "images"
    /\ ipc \in {"done", "raised"}
    /\ IF ipc = "done"
       THEN /\ ingest_docs' = ingest_docs \o rag_docs
            /\ gpc' = "done"
       ELSE /\ gpc' = "raised"
            /\ UNCHANGED ingest_docs
    /\ UNCHANGED <<ingest_path, llm, clients_built, llm_passed>>
    /\ UNCHANGED <<textVars, tableVars, imageVars, loadVars, worldVars, chunkVars, embedVars, ensureVars, callVars, batchVars, streamVars, chatVars>>

TableReset ==
    /\ xpc' = "idle"
    /\ pdf_path' = 0
    /\ batch_size' = 0
    /\ reconstruct' = FALSE
    /\ total_pages' = 0
    /\ batch_start' = 0
    /\ page_idx' = 0
    /\ order_index' = 0
    /\ xdocs' = <<>>
    /\ page_log' = <<>>
    /\ llm_calls' = <<>>

ImageReset ==
    /\ ipc' = "idle"
    /\ img_path' = 0
    /\ img_pages' = 0
    /\ page_index' = 0
    /\ image_index' = 0
    /\ page_images' = <<>>
    /\ seen_hashes' = {}
    /\ rag_docs' = <<>>
    /\ image_log' = <<>>

\* line 67: the next file of glob.glob, and the call of ingest_pdf on it (line 69),
\* no extraction of which has started; line 82: return docs
LoadNextFile ==
    /\ lpc = "loop"
    /\ IF file_idx < n_files
       THEN /\ lpc' = "ingest"
            /\ gpc' = "start"
            /\ ingest_path' = file_idx + 1
            /\ ingest_docs' = <<>>
            /\ llm' = vision_llm
            /\ UNCHANGED <<clients_built, llm_passed>>
            /\ TableReset
            /\ ImageReset
       ELSE /\ lpc' = "done"
            /\ UNCHANGED <<ingestVars, tableVars, imageVars>>
    /\ UNCHANGED <<n_files, file_idx, loaded, results, vision_llm>>
    /\ UNCHANGED <<textVars, worldVars, chunkVars, embedVars, ensureVars, callVars, batchVars, streamVars, chatVars>>

\* faulty variant: no except clause, the exception of ingest_pdf leaves load_documents
LoadAfterIngestUncaught ==
    /\ lpc = "ingest"
    /\ gpc \in {"done", "raised"}
    /\ IF gpc = "done"
       THEN /\ loaded' = loaded \o ingest_docs
            /\ lpc' = "loop"
            /\ file_idx' = file_idx + 1
            /\ results' = Append(results, [path |-> ingest_path, ok |-> TRUE,
                                           docs |-> ingest_docs, partial |-> 0])
       ELSE /\ lpc' = "raised"
            /\ UNCHANGED <<loaded, file_idx, results>>
    /\ UNCHANGED <<n_files, vision_llm>>
    /\ UNCHANGED <<textVars, tableVars, imageVars, ingestVars, worldVars, chunkVars, embedVars, ensureVars, callVars, batchVars, streamVars, chatVars>>

\* lines 68-79: the units ingest_pdf returned are appended to docs; an exception
\* of ingest_pdf is caught and logged, and the loop goes on with the next file
LoadAfterIngest ==
    /\ lpc = "ingest"
    /\ gpc \in {"done", "raised"}
    /\ IF gpc = "done"
       THEN /\ loaded' = loaded \o ingest_docs
            /\ results' = Append(results, [path |-> ingest_path, ok |-> TRUE,
                                           docs |-> ingest_docs, partial |-> 0])
       ELSE /\ UNCHANGED loaded
            /\ results' = Append(results, [path |-> ingest_path, ok |-> FALSE,
                                           docs |-> <<>>,
                                           partial |-> Len(xdocs) + Len(rag_docs)])
    /\ lpc' = "loop"
    /\ file_idx' = file_idx + 1
    /\ UNCHANGED <<n_files, vision_llm>>
    /\ UNCHANGED <<textVars, tableVars, imageVars, ingestVars, worldVars, chunkVars, embedVars, ensureVars, callVars, batchVars, streamVars, chatVars>>

\* lines 81-82: what load_documents hands to its caller is the list docs; the
\* number of units goes to the log, and the failures of line 79 go there only
load_documents_return == [docs |-> loaded]

----------------------------------------------------------------------------
(* ingestion_operations.py: build_semantic_chunks_per_doc;                  *)
(* document_embedding_service.py: chunk_document                            *)

\* the ways to cut a text into consecutive non-empty pieces
RECURSIVE Cuts(_)
Cuts(text) ==
    IF text = <<>> THEN {<<>>}
    ELSE UNION {{<<SubSeq(text, 1, k)>> \o rest : rest \in Cuts(SubSeq(text, k + 1, Len(text)))} :
                 k \in 1..Len(text)}

RECURSIVE concat_texts(_)
concat_texts(items) ==
    IF items = <<>> THEN <<>> ELSE Head(items).text \o concat_texts(Tail(items))

\* SemanticChunker.chunk(primitive): the merged chunks, pieces of the texts it
\* was given, in order; a text without content may come back as one empty chunk
chunker_chunk(items) ==
    LET text == concat_texts(items)
    IN  IF text = <<>> THEN {<<>>, <<[text |-> <<>>]>>}
        ELSE {[k \in 1..Len(cut) |-> [text |-> cut[k]]] : cut \in Cuts(text)}

\* faulty variant: the chunker is handed the Documents up to this one together
primitive_merged(docs, i) == [k \in 1..i |-> [text |-> docs[k].content]]

\* lines 105-110: the list handed to the chunker holds the one Document
primitive(docs, i) == <<[text |-> docs[i].content]>>

\* line 116: doc.metadata.get("source", "unknown")
doc_source(doc) == IF "source" \in DOMAIN doc THEN doc.source ELSE "unknown"

\* faulty variant: the chunks of a unit are appended last first
chunk_docs_reversed(merged_chunks, src) ==
    [k \in 1..Len(merged_chunks) |->
        [content |-> merged_chunks[Len(merged_chunks) + 1 - k].text, source |-> src]]

\* lines 114-117: the chunks of one unit, in the order the chunker gave them
chunk_docs_of(merged_chunks, src) ==
    [k \in 1..Len(merged_chunks) |-> [content |-> merged_chunks[k].text, source |-> src]]

\* lines 103-117: each Document is chunked by a call of its own and its chunks
\* get its source; the lists split_docs the loop from the i-th Document on can add
RECURSIVE per_doc_chunks(_, _)
per_doc_chunks(docs, i) ==
    IF i > Len(docs) THEN {<<>>}
    ELSE {chunk_docs_of(merged_chunks, doc_source(docs[i])) \o rest :
             merged_chunks \in chunker_chunk(primitive(docs, i)),
             rest \in per_doc_chunks(docs, i + 1)}

build_semantic_chunks_per_doc(docs) == per_doc_chunks(docs, 1)

\* document_embedding_service.py lines 52-68: the same loop, every chunk with
\* the source_name of the call
RECURSIVE named_chunks(_, _, _)
named_chunks(docs, name, i) ==
    IF i > Len(docs) THEN {<<>>}
    ELSE {chunk_docs_of(merged_chunks, name) \o rest :
             merged_chunks \in chunker_chunk(primitive(docs, i)),
             rest \in named_chunks(docs, name, i + 1)}

chunk_document(docs, name) == named_chunks(docs, name, 1)

ChunkIdle ==
    /\ cpc = "idle"
    /\ chunk_fn = "none"
    /\ all_docs = <<>>
    /\ source_name = ""
    /\ split_docs = <<>>

\* a call of build_semantic_chunks_per_doc(ctx, all_docs, max_tokens)
BuildSemanticChunksPerDoc ==
    /\ cpc = "called"
    /\ chunk_fn = "per_doc"
    /\ split_docs' \in build_semantic_chunks_per_doc(all_docs)
    /\ cpc' = "done"
    /\ UNCHANGED <<chunk_fn, all_docs, source_name>>

\* a call of chunk_document(docs, max_tokens, source_name)
ChunkDocument ==
    /\ cpc = "called"
    /\ chunk_fn = "chunk_document"
    /\ split_docs' \in chunk_document(all_docs, source_name)
    /\ cpc' = "done"
    /\ UNCHANGED <<chunk_fn, all_docs, source_name>>

----------------------------------------------------------------------------
(* weaviate/collection.py: ensure_weaviate_collection, called by several     *)
(* callers for the same collection name of one store                         *)

EnsureIdle ==
    /\ ens_pc = <<>>
    /\ ens_existing = <<>>
    /\ create_log = <<>>

\* faulty variant: create is called whatever list_all gave
EnsureListAllBlind(c) ==
    /\ ens_pc[c] = "list"
    /\ ens_existing' = [ens_existing EXCEPT ![c] = collection_exists]
    /\ ens_pc' = [ens_pc EXCEPT ![c] = "create"]
    /\ UNCHANGED <<create_log, collection_exists>>

\* lines 22-25 and 36-37: client.collections.list_all(), and the test whether
\* the name is among its keys; a caller that finds it has nothing more to do
EnsureListAll(c) ==
    /\ ens_pc[c] = "list"
    /\ ens_existing' = [ens_existing EXCEPT ![c] = collection_exists]
    /\ ens_pc' = [ens_pc EXCEPT ![c] = IF collection_exists THEN "done" ELSE "create"]
    /\ UNCHANGED <<create_log, collection_exists>>

\* lines 26-35: client.collections.create(name=name, ...). The store makes the
\* collection, or refuses a name it already has, and that exception leaves the
\* function
EnsureCreate(c) ==
    /\ ens_pc[c] = "create"
    /\ IF collection_exists
       THEN /\ ens_pc' = [ens_pc EXCEPT ![c] = "raised"]
            /\ create_log' = Append(create_log, [caller |-> c, accepted |-> FALSE])
            /\ UNCHANGED collection_exists
       ELSE /\ ens_pc' = [ens_pc EXCEPT ![c] = "done"]
            /\ create_log' = Append(create_log, [caller |-> c, accepted |-> TRUE])
            /\ collection_exists' = TRUE
    /\ UNCHANGED ens_existing

\* line 20: the function is entered again by a caller whose earlier call returned
EnsureCallAgain(c) ==
    /\ ens_pc[c] = "done"
    /\ ens_pc' = [ens_pc EXCEPT ![c] = "list"]
    /\ UNCHANGED <<ens_existing, create_log, collection_exists>>

----------------------------------------------------------------------------
(* document_embedding_service.py: load_single_document and                  *)
(* embed_document_with_progress; s3/client.py: download_file_from_s3;       *)
(* response.py: EmbedDocumentStage, EmbedDocumentProgressEvent              *)

\* EmbedDocumentStage without ERROR, in the order of the run
Stages == <<"downloading", "loading", "chunking", "embedding", "storing", "completed">>

NoException == [origin |-> "none", message |-> <<>>]

\* temp_file_path = None
NoPath == [prefix |-> "None", suffix |-> ""]

\* EmbedDocumentProgressEvent with the defaults of the fields a yield leaves out
\* (the field message is left out of the model, but for the text of an error)
progress_event(stage, percent, processed, total) ==
    [stage |-> stage, progress_percent |-> percent, chunks_processed |-> processed,
     total_chunks |-> total, document_id |-> "None", error_code |-> "None"]

\* the constraints of the fields: ge=0, le=100 and ge=0
valid_event(ev) ==
    /\ ev.progress_percent >= 0
    /\ ev.progress_percent <= 100
    /\ ev.chunks_processed >= 0
    /\ ev.total_chunks >= 0

\* faulty variant: the index of the chunk is taken for the number of chunks done
embedding_progress_of_index(i, total) == 30 + (i * 60) \div total

\* faulty variant: the embedding stage is given the rest of the scale
embedding_progress_to_100(i, total) == 30 + ((i + 1) * 70) \div total

\* line 176: 30 + int((i + 1) / total_chunks * 60), i counted from 0
embedding_progress(i, total) == 30 + ((i + 1) * 60) \div total

\* faulty variant: the event after the last chunk is left out
progress_due_fifth_only(i, total) == (i + 1) % 5 = 0

\* line 179: (i + 1) % 5 == 0 or i == total_chunks - 1, i counted from 0
progress_due(i, total) == (i + 1) % 5 = 0 \/ i = total - 1

\* a message is the sequence of its fragments; marker in str(e)
contains(message, marker) == \E k \in 1..Len(message) : message[k] = marker

\* str.lower()
lower_fragment(f) ==
    CASE f = "S3" -> "s3"
      [] f = "Download" -> "download"
      [] f = "Weaviate" -> "weaviate"
      [] f = ".TXT" -> ".txt"
      [] OTHER -> f

lower(message) == [k \in 1..Len(message) |-> lower_fragment(message[k])]

\* lines 243-250
error_code(message) ==
    IF contains(message, "S3") \/ contains(lower(message), "download")
    THEN "S3_DOWNLOAD_ERROR"
    ELSE IF contains(message, "Unsupported file type") THEN "UNSUPPORTED_FILE_TYPE"
    ELSE IF contains(lower(message), "weaviate") THEN "WEAVIATE_ERROR"
    ELSE "EMBED_ERROR"

\* lines 252-257
error_event(message) ==
    [stage |-> "error", progress_percent |-> 0, chunks_processed |-> 0,
     total_chunks |-> 0, document_id |-> "None", error_code |-> error_code(message),
     message |-> message]

\* faulty variant: the last event carries no document_id
completed_event_anonymous(total) == progress_event("completed", 100, total, total)

\* lines 226-234
completed_event(total) ==
    [progress_event("completed", 100, total, total) EXCEPT !.document_id = "uuid"]

\* s3/client.py line 44: Path(s3_key).suffix or ".tmp"
file_extension(key) == IF key.suffix = "" THEN ".tmp" ELSE key.suffix

\* the temporary file NamedTemporaryFile makes for the key
temp_path(key) == [prefix |-> "embed_doc_", suffix |-> file_extension(key)]

\* line 125: Path(s3_key).name
key_name(key) == [stem |-> key.stem, suffix |-> key.suffix]

\* embeddings.embed_query(text): a vector that is a function of the text
embed_query(text) == <<"vector", text>>

\* the positions at which the generator is suspended in a yield
Suspended ==
    {"downloading_0", "downloading_10", "loading_10", "loading_20", "chunking_20",
     "chunking_30", "embedding_30", "embedding_progress", "storing_90", "completed_100",
     "error_0"}

\* the positions at which the embedding loop is at its head
AtEmbedLoop == {"embedding_30", "embedding_progress", "embed_loop"}

EmbedIdle ==
    /\ epc = "idle"
    /\ s3_key = [stem |-> "", suffix |-> ""]
    /\ bucket_configured = FALSE
    /\ temp_file_path = NoPath
    /\ temp_on_disk = FALSE
    /\ embed_docs = <<>>
    /\ total_chunks = 0
    /\ embedding_vectors = <<>>
    /\ collection_exists = FALSE
    /\ records = <<>>
    /\ events = <<>>
    /\ exception = NoException
    /\ call_log = <<>>

\* a call of embed_document_with_progress: the generator is made, none of its
\* code has run (lines 98-100 set the locals)
EmbedCalled(key) ==
    /\ epc = "start"
    /\ s3_key = key
    /\ temp_file_path = NoPath
    /\ temp_on_disk = FALSE
    /\ embed_docs = <<>>
    /\ total_chunks = 0
    /\ embedding_vectors = <<>>
    /\ records = <<>>
    /\ events = <<>>
    /\ exception = NoException
    /\ call_log = <<>>

\* an exception of class Exception is raised at this point of the try statement
Raise(origin, messages) ==
    /\ \E message \in messages : exception' = [origin |-> origin, message |-> message]
    /\ epc' = "raising"

\* lines 259-269: the finally clause
Finally ==
    temp_on_disk' = IF temp_file_path # NoPath /\ temp_on_disk THEN FALSE ELSE temp_on_disk

\* lines 102-107: the first yield
EmbedStart ==
    /\ epc = "start"
    /\ events' = Append(events, progress_event("downloading", 0, 0, 0))
    /\ epc' = "downloading_0"
    /\ UNCHANGED <<s3_key, bucket_configured, temp_file_path, temp_on_disk, embed_docs,
                   total_chunks, embedding_vectors, collection_exists, records,
                   exception, call_log>>
    /\ UNCHANGED chunkVars

\* line 109 and download_file_from_s3: no bucket configured (lines 40-41), the
\* client cannot be made (lines 62-69, after the temporary file was made and
\* outside the try), the transfer fails (lines 70-117, the temporary file is
\* removed), or the file is there (line 105); lines 111-115: the next yield
DownloadFile(failures) ==
    /\ epc = "downloading_0"
    /\ call_log' = Append(call_log, "download")
    /\ IF ~bucket_configured
       THEN /\ Raise("download", {<<"AWS_", "S3", "_BUCKET is not configured">>})
            /\ UNCHANGED <<temp_file_path, temp_on_disk, events>>
       ELSE \/ /\ Raise("download", failures.client)
               /\ temp_on_disk' = TRUE
               /\ UNCHANGED <<temp_file_path, events>>
            \/ /\ Raise("download", failures.transfer)
               /\ temp_on_disk' = FALSE
               /\ UNCHANGED <<temp_file_path, events>>
            \/ /\ temp_on_disk' = TRUE
               /\ temp_file_path' = temp_path(s3_key)
               /\ events' = Append(events, progress_event("downloading", 10, 0, 0))
               /\ epc' = "downloading_10"
               /\ UNCHANGED exception
    /\ UNCHANGED <<s3_key, bucket_configured, embed_docs, total_chunks, embedding_vectors,
                   collection_exists, records>>
    /\ UNCHANGED chunkVars

\* lines 118-122
ResumeLoading ==
    /\ epc = "downloading_10"
    /\ events' = Append(events, progress_event("loading", 10, 0, 0))
    /\ epc' = "loading_10"
    /\ UNCHANGED <<s3_key, bucket_configured, temp_file_path, temp_on_disk, embed_docs,
                   total_chunks, embedding_vectors, collection_exists, records,
                   exception, call_log>>
    /\ UNCHANGED chunkVars

\* line 124 and load_single_document (lines 26-40) on the temporary file: the
\* loader of the suffix returns the Documents of the file or raises, any other
\* suffix is refused; lines 133-137: the next yield
LoadSingleDocument(contents, failures) ==
    /\ epc = "loading_10"
    /\ LET suffix == lower_fragment(temp_file_path.suffix)
       IN  IF suffix \in {".txt", ".pdf"}
           THEN \/ /\ Raise("load", failures.load)
                   /\ UNCHANGED <<embed_docs, events>>
                \/ /\ \E texts \in contents[suffix] :
                        embed_docs' = [k \in 1..Len(texts) |->
                                          [content |-> texts[k], source |-> temp_file_path]]
                   /\ events' = Append(events, progress_event("loading", 20, 0, 0))
                   /\ epc' = "loading_20"
                   /\ UNCHANGED exception
           ELSE /\ Raise("load", {<<"Unsupported file type", ": ", suffix>>})
                /\ UNCHANGED <<embed_docs, events>>
    /\ UNCHANGED <<s3_key, bucket_configured, temp_file_path, temp_on_disk, total_chunks,
                   embedding_vectors, collection_exists, records, call_log>>
    /\ UNCHANGED chunkVars

\* lines 140-144
ResumeChunking ==
    /\ epc = "loading_20"
    /\ events' = Append(events, progress_event("chunking", 20, 0, 0))
    /\ epc' = "chunking_20"
    /\ UNCHANGED <<s3_key, bucket_configured, temp_file_path, temp_on_disk, embed_docs,
                   total_chunks, embedding_vectors, collection_exists, records,
                   exception, call_log>>
    /\ UNCHANGED chunkVars

\* lines 146-161: the call of chunk_document, which returns or raises, and the
\* yield of the number of chunks
ChunkLoaded(failures) ==
    /\ epc = "chunking_20"
    /\ \/ /\ Raise("chunk", failures.chunk)
          /\ UNCHANGED <<chunkVars, total_chunks, events>>
       \/ /\ cpc' = "done"
          /\ chunk_fn' = "chunk_document"
          /\ all_docs' = embed_docs
          /\ source_name' = key_name(s3_key)
          /\ split_docs' \in chunk_document(embed_docs, key_name(s3_key))
          /\ total_chunks' = Len(split_docs')
          /\ events' = Append(events, progress_event("chunking", 30, 0, Len(split_docs')))
          /\ epc' = "chunking_30"
          /\ UNCHANGED exception
    /\ UNCHANGED <<s3_key, bucket_configured, temp_file_path, temp_on_disk, embed_docs,
                   embedding_vectors, collection_exists, records, call_log>>

\* lines 163-169
ResumeEmbedding ==
    /\ epc = "chunking_30"
    /\ events' = Append(events, progress_event("embedding", 30, 0, total_chunks))
    /\ epc' = "embedding_30"
    /\ UNCHANGED <<s3_key, bucket_configured, temp_file_path, temp_on_disk, embed_docs,
                   total_chunks, embedding_vectors, collection_exists, records,
                   exception, call_log>>
    /\ UNCHANGED chunkVars

\* lines 171-187: one turn of the embedding loop; embed_query returns or raises,
\* and the event is yielded after every fifth chunk and after the last
EmbedChunk(failures) ==
    /\ epc \in AtEmbedLoop
    /\ Len(embedding_vectors) < Len(split_docs)
    /\ LET i == Len(embedding_vectors)
           ev == progress_event("embedding", embedding_progress(i, total_chunks),
                                i + 1, total_chunks)
       IN  /\ call_log' = Append(call_log, "embed_query")
           /\ \/ /\ Raise("embed", failures.embed)
                 /\ UNCHANGED <<embedding_vectors, events>>
              \/ /\ embedding_vectors' =
                        Append(embedding_vectors, embed_query(split_docs[i + 1].content))
                 /\ IF progress_due(i, total_chunks)
                    THEN IF valid_event(ev)
                         THEN /\ events' = Append(events, ev)
                              /\ epc' = "embedding_progress"
                              /\ UNCHANGED exception
                         ELSE /\ Raise("event", {<<"validation error">>})
                              /\ UNCHANGED events
                    ELSE /\ epc' = "embed_loop"
                         /\ UNCHANGED <<events, exception>>
    /\ UNCHANGED <<s3_key, bucket_configured, temp_file_path, temp_on_disk, embed_docs,
                   total_chunks, collection_exists, records>>
    /\ UNCHANGED chunkVars

\* faulty variant: the storing stage is entered without its event
StartStoringSilent ==
    /\ epc \in AtEmbedLoop
    /\ Len(embedding_vectors) = Len(split_docs)
    /\ epc' = "storing_90"
    /\ UNCHANGED <<s3_key, bucket_configured, temp_file_path, temp_on_disk, embed_docs,
                   total_chunks, embedding_vectors, collection_exists, records,
                   events, exception, call_log>>
    /\ UNCHANGED chunkVars

\* lines 189-202: the loop is over (at once when there is no chunk)
StartStoring ==
    /\ epc \in AtEmbedLoop
    /\ Len(embedding_vectors) = Len(split_docs)
    /\ events' = Append(events, progress_event("storing", 90, total_chunks, total_chunks))
    /\ epc' = "storing_90"
    /\ UNCHANGED <<s3_key, bucket_configured, temp_file_path, temp_on_disk, embed_docs,
                   total_chunks, embedding_vectors, collection_exists, records,
                   exception, call_log>>
    /\ UNCHANGED chunkVars

\* faulty variant: the collection is made sure of while chunks are still to be
\* embedded
EnsureCollectionEarly(failures) ==
    /\ \/ epc = "storing_90"
       \/ epc \in AtEmbedLoop /\ \A k \in 1..Len(call_log) : call_log[k] # "ensure_collection"
    /\ call_log' = Append(call_log, "ensure_collection")
    /\ \/ /\ Raise("ensure", failures.store)
          /\ UNCHANGED collection_exists
       \/ /\ collection_exists' = TRUE
          /\ epc' = IF epc = "storing_90" THEN "insert_loop" ELSE epc
          /\ UNCHANGED exception
    /\ UNCHANGED <<s3_key, bucket_configured, temp_file_path, temp_on_disk, embed_docs,
                   total_chunks, embedding_vectors, records, events>>
    /\ UNCHANGED chunkVars

\* lines 204-208: ensure_weaviate_collection makes the collection if it is not
\* there, or raises
EnsureCollection(failures) ==
    /\ epc = "storing_90"
    /\ call_log' = Append(call_log, "ensure_collection")
    /\ \/ /\ Raise("ensure", failures.store)
          /\ UNCHANGED collection_exists
       \/ /\ collection_exists' = TRUE
          /\ epc' = "insert_loop"
          /\ UNCHANGED exception
    /\ UNCHANGED <<s3_key, bucket_configured, temp_file_path, temp_on_disk, embed_docs,
                   total_chunks, embedding_vectors, records, events>>
    /\ UNCHANGED chunkVars

\* faulty variant: an insert that failed is tried again
InsertChunkRetry(failures) ==
    /\ epc = "insert_loop"
    /\ Len(records) < Len(split_docs)
    /\ Len(records) < Len(embedding_vectors)
    /\ call_log' = Append(call_log, "insert")
    /\ LET doc == split_docs[Len(records) + 1]
       IN  \/ UNCHANGED records
           \/ records' = Append(records,
                                [content |-> doc.content, source |-> doc.source,
                                 vector |-> embedding_vectors[Len(records) + 1]])
    /\ UNCHANGED <<s3_key, bucket_configured, temp_file_path, temp_on_disk, embed_docs,
                   total_chunks, embedding_vectors, collection_exists, events, epc,
                   exception>>
    /\ UNCHANGED chunkVars

\* lines 210-217: one turn of the insert loop over zip(split_docs, embedding_vectors)
InsertChunk(failures) ==
    /\ epc = "insert_loop"
    /\ Len(records) < Len(split_docs)
    /\ Len(records) < Len(embedding_vectors)
    /\ call_log' = Append(call_log, "insert")
    /\ LET doc == split_docs[Len(records) + 1]
       IN  \/ /\ Raise("insert", failures.store)
              /\ UNCHANGED records
           \/ /\ records' = Append(records,
                                   [content |-> doc.content, source |-> doc.source,
                                    vector |-> embedding_vectors[Len(records) + 1]])
              /\ UNCHANGED <<epc, exception>>
    /\ UNCHANGED <<s3_key, bucket_configured, temp_file_path, temp_on_disk, embed_docs,
                   total_chunks, embedding_vectors, collection_exists, events>>
    /\ UNCHANGED chunkVars

\* faulty variant: the completed event is yielded while chunks are still to be
\* inserted
CompleteEarly ==
    /\ epc = "insert_loop"
    /\ events' = Append(events, completed_event(total_chunks))
    /\ epc' = "completed_100"
    /\ UNCHANGED <<s3_key, bucket_configured, temp_file_path, temp_on_disk, embed_docs,
                   total_chunks, embedding_vectors, collection_exists, records,
                   exception, call_log>>
    /\ UNCHANGED chunkVars

\* lines 219-234: the loop is over, the last yield of the try block
Complete ==
    /\ epc = "insert_loop"
    /\ Len(records) = Len(split_docs) \/ Len(records) = Len(embedding_vectors)
    /\ events' = Append(events, completed_event(total_chunks))
    /\ epc' = "completed_100"
    /\ UNCHANGED <<s3_key, bucket_configured, temp_file_path, temp_on_disk, embed_docs,
                   total_chunks, embedding_vectors, collection_exists, records,
                   exception, call_log>>
    /\ UNCHANGED chunkVars

\* faulty variant: the except clause takes the records of the run out of the
\* collection
ExceptRollback ==
    /\ epc = "raising"
    /\ events' = Append(events, error_event(exception.message))
    /\ records' = <<>>
    /\ epc' = "error_0"
    /\ UNCHANGED <<s3_key, bucket_configured, temp_file_path, temp_on_disk, embed_docs,
                   total_chunks, embedding_vectors, collection_exists, exception,
                   call_log>>
    /\ UNCHANGED chunkVars

\* faulty variant: no except clause; the finally clause runs and the exception
\* leaves the generator
ExceptReraise ==
    /\ epc = "raising"
    /\ Finally
    /\ epc' = "raised"
    /\ UNCHANGED <<s3_key, bucket_configured, temp_file_path, embed_docs, total_chunks,
                   embedding_vectors, collection_exists, records, events, exception,
                   call_log>>
    /\ UNCHANGED chunkVars

\* lines 236-257: except Exception, which yields the error event
ExceptException ==
    /\ epc = "raising"
    /\ events' = Append(events, error_event(exception.message))
    /\ epc' = "error_0"
    /\ UNCHANGED <<s3_key, bucket_configured, temp_file_path, temp_on_disk, embed_docs,
                   total_chunks, embedding_vectors, collection_exists, records,
                   exception, call_log>>
    /\ UNCHANGED chunkVars

\* the consumer asks for the event after the last yield of the try block or of
\* the except clause: the finally clause runs and the generator ends
EmbedFinish ==
    /\ epc \in {"completed_100", "error_0"}
    /\ Finally
    /\ epc' = "end"
    /\ UNCHANGED <<s3_key, bucket_configured, temp_file_path, embed_docs, total_chunks,
                   embedding_vectors, collection_exists, records, events, exception,
                   call_log>>
    /\ UNCHANGED chunkVars

\* the consumer closes the generator: GeneratorExit is raised at the yield the
\* generator is suspended at, which except Exception does not catch, and the
\* finally clause runs; a generator that has not started runs no code
EmbedClose ==
    /\ epc \in Suspended \cup {"start"}
    /\ IF epc = "start" THEN UNCHANGED temp_on_disk ELSE Finally
    /\ epc' = "closed"
    /\ UNCHANGED <<s3_key, bucket_configured, temp_file_path, embed_docs, total_chunks,
                   embedding_vectors, collection_exists, records, events, exception,
                   call_log>>
    /\ UNCHANGED chunkVars

----------------------------------------------------------------------------
(* weaviate_routes.py: embed_document, the streaming response that consumes  *)
(* embed_document_with_progress                                              *)

StreamIdle == consumer_gone = FALSE

\* the client goes away while the response is being streamed. event_generator
\* (lines 169-182) only iterates the generator and never asks whether the client
\* is still there.
ConsumerDisconnect ==
    /\ ~consumer_gone
    /\ epc \notin {"idle", "end", "closed", "raised"}
    /\ consumer_gone' = TRUE
    /\ UNCHANGED <<textVars, tableVars, imageVars, ingestVars, loadVars, worldVars, chunkVars,
                   embedVars, ensureVars, callVars, batchVars, chatVars>>

\* a generator that is suspended in a yield when its consumer has gone is not
\* resumed: the response closes it. Code that runs between two yields runs on.
ClosedAtYield == (consumer_gone /\ epc \in Suspended \cup {"start"}) => epc' = "closed"

----------------------------------------------------------------------------
(* rag_service.py: build_vectorstore;                                        *)
(* ingestion_operations.py: save_chunks_and_embeddings                       *)

BatchIdle ==
    /\ bpc = "idle"
    /\ save_flags = [save_chunks_txt |-> FALSE, save_embeddings_json |-> FALSE]
    /\ artifacts = <<>>

\* the variables of an embedding run that a batch run does not use
BatchUnused ==
    UNCHANGED <<epc, s3_key, bucket_configured, temp_file_path, temp_on_disk, embed_docs,
                total_chunks, events, exception>>

\* lines 105-113: load_documents gave all_docs; the chunker makes split_docs
BatchChunk ==
    /\ bpc = "start"
    /\ BuildSemanticChunksPerDoc
    /\ bpc' = "embed"
    /\ UNCHANGED <<save_flags, artifacts, embedding_vectors, records, call_log,
                   collection_exists>>

\* lines 118-120: one turn of the embedding loop; embed_query answers or raises
BatchEmbedQuery ==
    /\ bpc = "embed"
    /\ Len(embedding_vectors) < Len(split_docs)
    /\ call_log' = Append(call_log, "embed_query")
    /\ \/ /\ bpc' = "raised"
          /\ UNCHANGED embedding_vectors
       \/ /\ embedding_vectors' =
                 Append(embedding_vectors,
                        embed_query(split_docs[Len(embedding_vectors) + 1].content))
          /\ UNCHANGED bpc
    /\ UNCHANGED <<save_flags, artifacts, records, collection_exists>>
    /\ UNCHANGED chunkVars

\* ingestion_operations.py lines 150-190: the files save_chunks_and_embeddings
\* writes, in the order it writes them
artifact_files(flags) ==
    (IF flags.save_chunks_txt THEN <<"chunks.txt">> ELSE <<>>)
      \o (IF flags.save_embeddings_json THEN <<"embeddings.json">> ELSE <<>>)
      \o <<"metadata.json">>

\* lines 125-138: the embedding loop is over and save_chunks_and_embeddings is
\* called. It makes the output directory and writes its files one after the
\* other; mkdir or any open/write may raise, and nothing catches the exception,
\* neither there nor in build_vectorstore. `written` files were completed.
BatchSave ==
    /\ bpc = "embed"
    /\ Len(embedding_vectors) = Len(split_docs)
    /\ LET files == artifact_files(save_flags)
       IN  \E written \in 0..Len(files) :
             /\ artifacts' = SubSeq(files, 1, written)
             /\ bpc' = IF written = Len(files) THEN "ensure" ELSE "raised"
    /\ UNCHANGED <<save_flags, embedding_vectors, records, call_log, collection_exists>>
    /\ UNCHANGED chunkVars

\* lines 140-148: ensure_weaviate_collection makes the collection if it is not
\* there, or raises
BatchEnsureCollection ==
    /\ bpc = "ensure"
    /\ call_log' = Append(call_log, "ensure_collection")
    /\ \/ /\ bpc' = "raised"
          /\ UNCHANGED collection_exists
       \/ /\ collection_exists' = TRUE
          /\ bpc' = "insert"
    /\ UNCHANGED <<save_flags, artifacts, embedding_vectors, records>>
    /\ UNCHANGED chunkVars

\* faulty variant: every record is stored with the default source
vectorstore_record_unknown(doc, embedding_vector) ==
    [content |-> doc.content, source |-> "unknown", vector |-> embedding_vector]

\* lines 155-161: the properties and the vector of one insert
vectorstore_record(doc, embedding_vector) ==
    [content |-> doc.content, source |-> doc_source(doc), vector |-> embedding_vector]

\* lines 153-164: one turn of the insert loop over zip(split_docs, embedding_vectors)
BatchInsert ==
    /\ bpc = "insert"
    /\ Len(records) < Len(split_docs)
    /\ Len(records) < Len(embedding_vectors)
    /\ call_log' = Append(call_log, "insert")
    /\ \/ /\ bpc' = "raised"
          /\ UNCHANGED records
       \/ /\ records' = Append(records,
                               vectorstore_record(split_docs[Len(records) + 1],
                                                  embedding_vectors[Len(records) + 1]))
          /\ UNCHANGED bpc
    /\ UNCHANGED <<save_flags, artifacts, embedding_vectors, collection_exists>>
    /\ UNCHANGED chunkVars

\* lines 166-168: the insert loop is over, return split_docs
BatchReturn ==
    /\ bpc = "insert"
    /\ \/ Len(records) = Len(split_docs)
       \/ Len(records) = Len(embedding_vectors)
    /\ bpc' = "done"
    /\ UNCHANGED <<save_flags, artifacts, embedding_vectors, records, call_log,
                   collection_exists>>
    /\ UNCHANGED chunkVars

----------------------------------------------------------------------------
(* chat_routes.py: chat_stream and its event_generator. A message of a       *)
(* history is a record of role and content. What the chain is asked (the     *)
(* question and the formatted history) does not bind what it answers, so     *)
(* the answer is any sequence of chunks, ended or broken off by an exception *)

ChatIdle ==
    /\ chat_memory = <<>>
    /\ req_pc = <<>>
    /\ req_session = <<>>
    /\ req_message = <<>>
    /\ chain_rest = <<>>
    /\ assistant_chunks = <<>>
    /\ client_disconnected = <<>>
    /\ sse_events = <<>>

\* line 19
MAX_HISTORY_MESSAGES == 5

\* line 54: deque(maxlen=MAX_HISTORY_MESSAGES * 2)
history_maxlen == MAX_HISTORY_MESSAGES * 2

\* deque.append of a deque with maxlen: a full deque drops its oldest item
deque_append(history, item) ==
    IF Len(history) >= history_maxlen
    THEN Tail(history) \o <<item>>
    ELSE Append(history, item)

\* line 49: payload.session_id or "default"; "" stands for None and for ""
session_of(session_id) == IF session_id = "" THEN "default" ELSE session_id

\* dict.setdefault(key, default)
setdefault(memory, key, default) ==
    IF key \in DOMAIN memory THEN memory ELSE (key :> default) @@ memory

\* str.isalnum of one character
isalnum(ch) == ch \notin {" ", "\n", ".", "[", "]", ":"}

\* lines 90-99: a space is put before a chunk that goes on a word
smart_spacing(chunks, text) ==
    IF text # <<>> /\ chunks # <<>>
    THEN LET prev_chunk == chunks[Len(chunks)]
         IN  IF prev_chunk # <<>> /\ isalnum(prev_chunk[Len(prev_chunk)]) /\ isalnum(text[1])
             THEN <<" ">> \o text
             ELSE text
    ELSE text

\* lines 104, 114: f"data: {text}\n\n"
sse(text) == <<"data: ">> \o text \o <<"\n\n">>

\* line 114: the event of an exception
sse_error(message) == sse(<<"[Error] ">> \o message)

\* "".join(chunks)
RECURSIVE join_chunks(_)
join_chunks(chunks) ==
    IF chunks = <<>> THEN <<>> ELSE Head(chunks) \o join_chunks(Tail(chunks))

\* lines 118-129: the two appends of the else clause, with no await between them
append_exchange(history, message, chunks) ==
    deque_append(deque_append(history, [role |-> "user", content |-> message]),
                 [role |-> "assistant", content |-> join_chunks(chunks)])

\* faulty variant: the user message is put into the history when the request
\* arrives
ChatStreamEager(r, session_id, message, answer) ==
    /\ req_pc[r] = "idle"
    /\ IF r = 1 THEN TRUE ELSE req_pc[r - 1] # "idle"
    /\ chat_memory' =
          LET memory == setdefault(chat_memory, session_of(session_id), <<>>)
          IN  [memory EXCEPT ![session_of(session_id)] =
                  deque_append(@, [role |-> "user", content |-> message])]
    /\ req_session' = [req_session EXCEPT ![r] = session_of(session_id)]
    /\ req_message' = [req_message EXCEPT ![r] = message]
    /\ req_pc' = [req_pc EXCEPT ![r] = "start"]
    /\ chain_rest' = [chain_rest EXCEPT ![r] = answer]
    /\ UNCHANGED <<assistant_chunks, client_disconnected, sse_events>>

\* lines 43-56, 137: the handler, which has no await: the deque of the session
\* is looked up or made, and the response is returned with a generator that
\* has not started. Request r is made after request r - 1; answer is what the
\* chain will give for it if it is let run to its end.
ChatStream(r, session_id, message, answer) ==
    /\ req_pc[r] = "idle"
    /\ IF r = 1 THEN TRUE ELSE req_pc[r - 1] # "idle"
    /\ chat_memory' = setdefault(chat_memory, session_of(session_id), <<>>)
    /\ req_session' = [req_session EXCEPT ![r] = session_of(session_id)]
    /\ req_message' = [req_message EXCEPT ![r] = message]
    /\ req_pc' = [req_pc EXCEPT ![r] = "start"]
    /\ chain_rest' = [chain_rest EXCEPT ![r] = answer]
    /\ UNCHANGED <<assistant_chunks, client_disconnected, sse_events>>

\* the generator of the request is waiting for the chain
AwaitingChain(r) == req_pc[r] \in {"start", "yielded"}

\* lines 70-104: astream gives a chunk and request.is_disconnected() answers.
\* A client that has gone ends the loop, and the else clause of the try finds
\* client_disconnected set; a chunk that is empty is not sent; any other is
\* spaced, kept and yielded.
AstreamChunk(r, disconnected) ==
    /\ AwaitingChain(r)
    /\ chain_rest[r] # <<>>
    /\ chain_rest' = [chain_rest EXCEPT ![r] = IF disconnected THEN <<>> ELSE Tail(@)]
    /\ IF disconnected
       THEN /\ client_disconnected' = [client_disconnected EXCEPT ![r] = TRUE]
            /\ req_pc' = [req_pc EXCEPT ![r] = "done"]
            /\ UNCHANGED <<assistant_chunks, sse_events>>
       ELSE LET text == smart_spacing(assistant_chunks[r], Head(chain_rest[r]))
            IN  IF text # <<>>
                THEN /\ assistant_chunks' = [assistant_chunks EXCEPT ![r] = Append(@, text)]
                     /\ sse_events' = [sse_events EXCEPT ![r] = Append(@, sse(text))]
                     /\ req_pc' = [req_pc EXCEPT ![r] = "yielded"]
                     /\ UNCHANGED client_disconnected
                ELSE UNCHANGED <<assistant_chunks, sse_events, req_pc, client_disconnected>>
    /\ UNCHANGED <<chat_memory, req_session, req_message>>

\* lines 70, 116-135: astream is over; the else clause keeps the exchange of a
\* stream that sent a chunk
AstreamEnd(r) ==
    /\ AwaitingChain(r)
    /\ chain_rest[r] = <<>>
    /\ IF assistant_chunks[r] # <<>> /\ ~client_disconnected[r]
       THEN chat_memory' =
                [chat_memory EXCEPT ![req_session[r]] =
                    append_exchange(@, req_message[r], assistant_chunks[r])]
       ELSE UNCHANGED chat_memory
    /\ req_pc' = [req_pc EXCEPT ![r] = "done"]
    /\ UNCHANGED <<req_session, req_message, chain_rest, assistant_chunks,
                   client_disconnected, sse_events>>

\* faulty variant: the except clause keeps what was sent before the exception
AstreamRaiseKeepsPartial(r, message) ==
    /\ AwaitingChain(r)
    /\ sse_events' = [sse_events EXCEPT ![r] = Append(@, sse_error(message))]
    /\ chat_memory' =
          [chat_memory EXCEPT ![req_session[r]] =
              append_exchange(@, req_message[r], assistant_chunks[r])]
    /\ req_pc' = [req_pc EXCEPT ![r] = "error_yielded"]
    /\ chain_rest' = [chain_rest EXCEPT ![r] = <<>>]
    /\ UNCHANGED <<req_session, req_message, assistant_chunks, client_disconnected>>

\* lines 106-114: the chain raises an Exception in place of its next chunk; the
\* except clause yields the error event
AstreamRaise(r, message) ==
    /\ AwaitingChain(r)
    /\ sse_events' = [sse_events EXCEPT ![r] = Append(@, sse_error(message))]
    /\ req_pc' = [req_pc EXCEPT ![r] = "error_yielded"]
    /\ chain_rest' = [chain_rest EXCEPT ![r] = <<>>]
    /\ UNCHANGED <<chat_memory, req_session, req_message, assistant_chunks,
                   client_disconnected>>

\* the generator is resumed after the error event: the try statement is over
\* and the else clause is not run
ResumeAfterError(r) ==
    /\ req_pc[r] = "error_yielded"
    /\ req_pc' = [req_pc EXCEPT ![r] = "done"]
    /\ UNCHANGED <<chat_memory, req_session, req_message, chain_rest, assistant_chunks,
                   client_disconnected, sse_events>>

\* the response closes or cancels the generator: GeneratorExit or CancelledError
\* is raised where it is suspended, which `except Exception` does not catch and
\* after which the else clause is not run
CloseGenerator(r) ==
    /\ req_pc[r] \in {"start", "yielded", "error_yielded"}
    /\ req_pc' = [req_pc EXCEPT ![r] = "closed"]
    /\ chain_rest' = [chain_rest EXCEPT ![r] = <<>>]
    /\ UNCHANGED <<chat_memory, req_session, req_message, assistant_chunks,
                   client_disconnected, sse_events>>

----------------------------------------------------------------------------
(* The documents one call of extract_tables_and_text_in_order is tried on *)

MaxPages == 3

MaxBatchSize == 2

ProseBlock == <<0, 0, 0, 0, <<"a", "\n">>>>

CellBlock == <<1, 1, 1, 1, <<"b", "\n", "c">>>>

CellTable == <<1, 0, 1, 1>>

\* prose only; prose beside a table; a table only; prose beside a table whose
\* detection raises
ProsePage == [blocks |-> <<ProseBlock>>, tables |-> <<>>, raises |-> FALSE]

MixedPage == [blocks |-> <<ProseBlock, CellBlock>>, tables |-> <<CellTable>>, raises |-> FALSE]

TablePage == [blocks |-> <<CellBlock>>, tables |-> <<CellTable>>, raises |-> FALSE]

UndetectedPage == [blocks |-> <<ProseBlock, CellBlock>>, tables |-> <<CellTable>>, raises |-> TRUE]

AnyLayout == [idx \in 0..MaxPages |-> {ProsePage, MixedPage, TablePage, UndetectedPage}]

\* what the vision model may answer: nothing, whitespace only, markdown
TableResponses == {<<>>, <<" ", "\n">>, <<" ", "T", "\n">>}

TableInit ==
    \E b \in 1..MaxBatchSize, r \in BOOLEAN : TableCalled(1, b, r)

OnlyTable == UNCHANGED <<textVars, imageVars, ingestVars, loadVars, worldVars, chunkVars, embedVars, ensureVars, callVars, batchVars, streamVars, chatVars>>

TableNext ==
    \/ OpenPdf(0..MaxPages) /\ OnlyTable
    \/ NextBatch /\ OnlyTable
    \/ AppendPageTextDoc(AnyLayout) /\ OnlyTable
    \/ BuildTablesDocForBatch(TableResponses) /\ OnlyTable

InitText == TextInit /\ TableIdle /\ ImageIdle /\ IngestIdle /\ LoadIdle /\ WorldInit /\ ChunkIdle /\ EmbedIdle /\ EnsureIdle /\ CallsIdle /\ BatchIdle /\ StreamIdle /\ ChatIdle

SpecText == InitText /\ [][TextNext]_vars

InitTable == TextIdle /\ TableInit /\ ImageIdle /\ IngestIdle /\ LoadIdle /\ WorldInit /\ ChunkIdle /\ EmbedIdle /\ EnsureIdle /\ CallsIdle /\ BatchIdle /\ StreamIdle /\ ChatIdle

SpecTable == InitTable /\ [][TableNext]_vars


----------------------------------------------------------------------------
(* The documents one call of build_image_docs_from_pdf_with_ai is tried on *)

MaxImagePages == 2

EmptyImage == [image |-> <<>>, ext |-> "png"]

ImageA == [image |-> <<1>>, ext |-> "png"]

ImageB == [image |-> <<2>>, ext |-> "png"]

Images == {EmptyImage, ImageA, ImageB}

AnyImages == [idx \in 0..MaxImagePages |-> SeqsUpTo(Images, 2)]

CaptionResponses == {<<" ", "d">>}

ImagesInit ==
    /\ ImagesCalled(1)
    /\ image_dir_ok \in BOOLEAN
    /\ caption_calls = <<>>
    /\ files_written = <<>>

OnlyImages == UNCHANGED <<textVars, tableVars, ingestVars, loadVars, chunkVars, embedVars, ensureVars, callVars, batchVars, streamVars, chatVars>>

ImagesNext ==
    \/ OpenImages(0..MaxImagePages) /\ OnlyImages
    \/ EnterPage(AnyImages) /\ OnlyImages
    \/ BuildImageDoc(CaptionResponses) /\ OnlyImages

InitImages == TextIdle /\ TableIdle /\ ImagesInit /\ IngestIdle /\ LoadIdle /\ ChunkIdle /\ EmbedIdle /\ EnsureIdle /\ CallsIdle /\ BatchIdle /\ StreamIdle /\ ChatIdle

SpecImages == InitImages /\ [][ImagesNext]_vars

----------------------------------------------------------------------------
(* The documents one call of ingest_pdf is tried on: none, one or two batches *)

IngestPageCounts == {0, 1, DefaultBatchSize + 1}

IngestLayouts ==
    [idx \in 0..DefaultBatchSize |->
        IF idx <= 1 THEN {ProsePage, TablePage} ELSE {MixedPage}]

IngestImages ==
    [idx \in 0..DefaultBatchSize |->
        IF idx \in {0, 3}
        THEN {<<>>, <<ImageA>>, <<EmptyImage, ImageB>>, <<ImageA, ImageB>>}
        ELSE {<<>>}]

IngestResponses == {<<>>, <<" ", "T", "\n">>}

IngestInit ==
    /\ gpc = "start"
    /\ ingest_path = 1
    /\ ingest_docs = <<>>
    /\ llm \in {NoLlm, SuppliedLlm}
    /\ clients_built = 0
    /\ llm_passed = <<>>
    /\ image_dir_ok \in BOOLEAN
    /\ caption_calls = <<>>
    /\ files_written = <<>>

OnlyTableOf == UNCHANGED <<textVars, imageVars, ingestVars, loadVars, worldVars, chunkVars, embedVars, ensureVars, callVars, batchVars, streamVars, chatVars>>

OnlyImagesOf == UNCHANGED <<textVars, tableVars, ingestVars, loadVars, chunkVars, embedVars, ensureVars, callVars, batchVars, streamVars, chatVars>>

IngestNext ==
    \/ IngestStart
    \/ OpenPdf(IngestPageCounts) /\ OnlyTableOf
    \/ NextBatch /\ OnlyTableOf
    \/ AppendPageTextDoc(IngestLayouts) /\ OnlyTableOf
    \/ BuildTablesDocForBatch(IngestResponses) /\ OnlyTableOf
    \/ IngestAfterExtract
    \/ OpenImages({total_pages}) /\ OnlyImagesOf
    \/ EnterPage(IngestImages) /\ OnlyImagesOf
    \/ BuildImageDoc(CaptionResponses) /\ OnlyImagesOf
    \/ IngestAfterImages

InitIngest == TextIdle /\ TableIdle /\ ImageIdle /\ IngestInit /\ LoadIdle /\ ChunkIdle /\ EmbedIdle /\ EnsureIdle /\ CallsIdle /\ BatchIdle /\ StreamIdle /\ ChatIdle

SpecIngest == InitIngest /\ [][IngestNext]_vars

----------------------------------------------------------------------------
(* The directories one call of load_documents is tried on *)

NumFiles == 2

LoadPageCounts == {0, 2}

LoadLayouts == [idx \in 0..1 |-> {ProsePage, TablePage}]

LoadImages ==
    [idx \in 0..1 |-> IF idx = 0 THEN {<<>>, <<ImageA>>, <<ImageA, ImageB>>} ELSE {<<>>, <<ImageB>>}]

\* the vision_llm argument: left out, or, with one file, a client of the caller
LoadClients == [n \in 0..NumFiles |-> IF n = 1 THEN {NoLlm, SuppliedLlm} ELSE {NoLlm}]

LoadInit ==
    /\ lpc = "loop"
    /\ n_files \in 0..NumFiles
    /\ file_idx = 0
    /\ loaded = <<>>
    /\ results = <<>>
    /\ vision_llm \in LoadClients[n_files]
    /\ image_dir_ok \in BOOLEAN
    /\ caption_calls = <<>>
    /\ files_written = <<>>

LoadNext ==
    \/ LoadNextFile
    \/ IngestStart
    \/ OpenPdf(LoadPageCounts) /\ OnlyTableOf
    \/ NextBatch /\ OnlyTableOf
    \/ AppendPageTextDoc(LoadLayouts) /\ OnlyTableOf
    \/ BuildTablesDocForBatch(IngestResponses) /\ OnlyTableOf
    \/ IngestAfterExtract
    \/ OpenImages({total_pages}) /\ OnlyImagesOf
    \/ EnterPage(LoadImages) /\ OnlyImagesOf
    \/ BuildImageDoc(CaptionResponses) /\ OnlyImagesOf
    \/ IngestAfterImages
    \/ LoadAfterIngest

InitLoad == TextIdle /\ TableIdle /\ ImageIdle /\ IngestIdle /\ LoadInit /\ ChunkIdle /\ EmbedIdle /\ EnsureIdle /\ CallsIdle /\ BatchIdle /\ StreamIdle /\ ChatIdle

SpecLoad == InitLoad /\ [][LoadNext]_vars

----------------------------------------------------------------------------
(* The lists one call of a chunker is tried on *)

MaxDocs == 2

MaxTokens == 2

\* the text of the k-th Document: n tokens that name the Document they are from
TextOf(k, n) == [j \in 1..n |-> <<k, j>>]

\* the sources of the units load_documents returns
PdfSources == {"a.pdf", "b.pdf"}

\* the temporary file download_file_from_s3 made, which the loaders record as
\* the source of every Document of the file; Path(s3_key).name has no directory
TempPath == "/tmp/embed_doc_1.pdf"

KeyNames == {"a.pdf"}

ChunkInit ==
    /\ cpc = "called"
    /\ split_docs = <<>>
    /\ \/ /\ chunk_fn = "per_doc"
          /\ source_name = ""
          /\ \E shape \in SeqsUpTo(PdfSources \X (0..MaxTokens), MaxDocs) :
               all_docs = [k \in 1..Len(shape) |->
                              [content |-> TextOf(k, shape[k][2]), source |-> shape[k][1]]]
       \/ /\ chunk_fn = "chunk_document"
          /\ source_name \in KeyNames
          /\ \E shape \in SeqsUpTo(0..MaxTokens, MaxDocs) :
               all_docs = [k \in 1..Len(shape) |->
                              [content |-> TextOf(k, shape[k]), source |-> TempPath]]

OnlyChunk ==
    UNCHANGED <<textVars, tableVars, imageVars, ingestVars, loadVars, worldVars, embedVars, ensureVars, callVars, batchVars, streamVars, chatVars>>

ChunkNext ==
    \/ BuildSemanticChunksPerDoc /\ OnlyChunk
    \/ ChunkDocument /\ OnlyChunk

InitChunk == TextIdle /\ TableIdle /\ ImageIdle /\ IngestIdle /\ LoadIdle /\ WorldInit /\ ChunkInit /\ EmbedIdle /\ EnsureIdle /\ CallsIdle /\ BatchIdle /\ StreamIdle /\ ChatIdle

SpecChunk == InitChunk /\ [][ChunkNext]_vars

----------------------------------------------------------------------------
(* The files one run of embed_document_with_progress is tried on *)

MaxFilePages == 3

\* keys with a suffix of each loader, one no loader takes, and none
EmbedKeys == {[stem |-> "a", suffix |-> x] : x \in {".pdf", ".TXT", ".docx", ""}}

\* what the loaders can find in a file: TextLoader one text, PyPDFLoader one
\* text for each page
FileContents ==
    [suffix \in {".txt", ".pdf"} |->
        IF suffix = ".txt"
        THEN {<<TextOf(1, n)>> : n \in 0..MaxTokens}
        ELSE {[k \in 1..Len(shape) |-> TextOf(k, shape[k])] :
                 shape \in SeqsUpTo(0..MaxTokens, MaxFilePages)}]

\* the messages of the exceptions the services outside can raise
EmbedFailures ==
    [client   |-> {<<"cannot connect">>},
     transfer |-> {<<"S3", " access denied">>, <<"timed out">>},
     load     |-> {<<"cannot parse">>},
     chunk    |-> {<<"chunker failed">>},
     embed    |-> {<<"model throttled">>},
     store    |-> {<<"Weaviate", " unavailable">>, <<"timed out">>}]

EmbedInit ==
    /\ \E key \in EmbedKeys : EmbedCalled(key)
    /\ bucket_configured \in BOOLEAN
    /\ collection_exists \in BOOLEAN

OnlyEmbed ==
    UNCHANGED <<textVars, tableVars, imageVars, ingestVars, loadVars, worldVars, ensureVars, callVars, batchVars, streamVars, chatVars>>

EmbedNext ==
    \/ EmbedStart /\ OnlyEmbed
    \/ DownloadFile(EmbedFailures) /\ OnlyEmbed
    \/ ResumeLoading /\ OnlyEmbed
    \/ LoadSingleDocument(FileContents, EmbedFailures) /\ OnlyEmbed
    \/ ResumeChunking /\ OnlyEmbed
    \/ ChunkLoaded(EmbedFailures) /\ OnlyEmbed
    \/ ResumeEmbedding /\ OnlyEmbed
    \/ EmbedChunk(EmbedFailures) /\ OnlyEmbed
    \/ StartStoring /\ OnlyEmbed
    \/ EnsureCollection(EmbedFailures) /\ OnlyEmbed
    \/ InsertChunk(EmbedFailures) /\ OnlyEmbed
    \/ Complete /\ OnlyEmbed
    \/ ExceptException /\ OnlyEmbed
    \/ EmbedFinish /\ OnlyEmbed
    \/ EmbedClose /\ OnlyEmbed

InitEmbed ==
    TextIdle /\ TableIdle /\ ImageIdle /\ IngestIdle /\ LoadIdle /\ WorldInit /\ ChunkIdle /\ EmbedInit /\ EnsureIdle /\ CallsIdle /\ BatchIdle /\ StreamIdle /\ ChatIdle

SpecEmbed == InitEmbed /\ [][EmbedNext]_vars

StreamNext ==
    \/ ConsumerDisconnect
    \/ EmbedNext /\ ClosedAtYield

SpecStream == InitEmbed /\ [][StreamNext]_vars

----------------------------------------------------------------------------
(* The seven-page documents one call of ingest_pdf is tried on: two batches,  *)
(* prose on every page, a table region on any of them, an image on the first *)
(* and the fourth page                                                       *)

ScenarioPageCounts == {DefaultBatchSize + 2}

ScenarioLayouts == [idx \in 0..(DefaultBatchSize + 1) |-> {ProsePage, MixedPage}]

ScenarioImages ==
    [idx \in 0..(DefaultBatchSize + 1) |->
        IF idx \in {0, 3} THEN {<<>>, <<ImageA>>, <<ImageB>>} ELSE {<<>>}]

ScenarioResponses == {<<" ", "T", "\n">>}

ScenarioNext ==
    \/ IngestStart
    \/ OpenPdf(ScenarioPageCounts) /\ OnlyTableOf
    \/ NextBatch /\ OnlyTableOf
    \/ AppendPageTextDoc(ScenarioLayouts) /\ OnlyTableOf
    \/ BuildTablesDocForBatch(ScenarioResponses) /\ OnlyTableOf
    \/ IngestAfterExtract
    \/ OpenImages({total_pages}) /\ OnlyImagesOf
    \/ EnterPage(ScenarioImages) /\ OnlyImagesOf
    \/ BuildImageDoc(CaptionResponses) /\ OnlyImagesOf
    \/ IngestAfterImages

InitScenario ==
    TextIdle /\ TableIdle /\ ImageIdle /\ IngestInit /\ LoadIdle /\ ChunkIdle /\ EmbedIdle /\ EnsureIdle /\ CallsIdle /\ BatchIdle /\ StreamIdle /\ ChatIdle

SpecScenario == InitScenario /\ [][ScenarioNext]_vars

----------------------------------------------------------------------------
(* The callers of ensure_weaviate_collection that run at the same time *)

MaxCallers == 3

Callers == 1..MaxCallers

EnsureInit ==
    /\ ens_pc \in [Callers -> {"idle", "list"}]
    /\ ens_existing = [c \in Callers |-> FALSE]
    /\ create_log = <<>>
    /\ collection_exists \in BOOLEAN
    /\ epc = "idle"
    /\ s3_key = [stem |-> "", suffix |-> ""]
    /\ bucket_configured = FALSE
    /\ temp_file_path = NoPath
    /\ temp_on_disk = FALSE
    /\ embed_docs = <<>>
    /\ total_chunks = 0
    /\ embedding_vectors = <<>>
    /\ records = <<>>
    /\ events = <<>>
    /\ exception = NoException
    /\ call_log = <<>>

OnlyEnsure ==
    /\ UNCHANGED <<textVars, tableVars, imageVars, ingestVars, loadVars, worldVars, chunkVars,
                   callVars, batchVars, streamVars, chatVars>>
    /\ UNCHANGED <<epc, s3_key, bucket_configured, temp_file_path, temp_on_disk, embed_docs,
                   total_chunks, embedding_vectors, records, events, exception, call_log>>

EnsureNext ==
    \/ \E c \in Callers : EnsureListAll(c) /\ OnlyEnsure
    \/ \E c \in Callers : EnsureCreate(c) /\ OnlyEnsure

InitEnsure ==
    TextIdle /\ TableIdle /\ ImageIdle /\ IngestIdle /\ LoadIdle /\ WorldInit /\ ChunkIdle /\ EnsureInit /\ CallsIdle /\ BatchIdle /\ StreamIdle /\ ChatIdle

SpecEnsure == InitEnsure /\ [][EnsureNext]_vars

\* sequential use: a call begins only when no other call is under way
NoCallUnderWay == \A c \in Callers : ens_pc[c] # "create"

EnsureSeqNext ==
    \/ \E c \in Callers : NoCallUnderWay /\ EnsureListAll(c) /\ OnlyEnsure
    \/ \E c \in Callers : EnsureCreate(c) /\ OnlyEnsure
    \/ \E c \in Callers : NoCallUnderWay /\ EnsureCallAgain(c) /\ OnlyEnsure

SpecEnsureSeq == InitEnsure /\ [][EnsureSeqNext]_vars

----------------------------------------------------------------------------
(* The calls of build_image_docs_from_pdf_with_ai that are under way at once, *)
(* on the same document or on different ones                                 *)

MaxCalls == 2

CallsInit ==
    /\ call_path \in [1..MaxCalls -> 1..2]
    /\ call_images \in [1..MaxCalls -> SeqsUpTo(Images, 2)]
    /\ \A j, k \in 1..MaxCalls : call_path[j] = call_path[k] => call_images[j] = call_images[k]
    /\ call_pc = [k \in 1..MaxCalls |-> IF call_images[k] = <<>> THEN "done" ELSE "loop"]
    /\ call_pos = [k \in 1..MaxCalls |-> 0]
    /\ call_seen = [k \in 1..MaxCalls |-> {}]
    /\ call_docs = [k \in 1..MaxCalls |-> <<>>]

OnlyCalls ==
    UNCHANGED <<textVars, tableVars, imageVars, ingestVars, loadVars, chunkVars, embedVars,
                ensureVars, batchVars, streamVars, chatVars>>

CallsNext ==
    \E k \in 1..MaxCalls : CallBuildImageDoc(k, CaptionResponses) /\ OnlyCalls

InitCalls ==
    TextIdle /\ TableIdle /\ ImageIdle /\ IngestIdle /\ LoadIdle /\ WorldInit /\ ChunkIdle /\ EmbedIdle /\ EnsureIdle /\ CallsInit /\ BatchIdle /\ StreamIdle /\ ChatIdle

SpecCalls == InitCalls /\ [][CallsNext]_vars

----------------------------------------------------------------------------
(* The lists of units one call of build_vectorstore gets from load_documents *)

BatchInit ==
    /\ bpc = "start"
    /\ save_flags \in [save_chunks_txt : BOOLEAN, save_embeddings_json : BOOLEAN]
    /\ artifacts = <<>>
    /\ cpc = "called"
    /\ chunk_fn = "per_doc"
    /\ source_name = ""
    /\ split_docs = <<>>
    /\ \E shape \in SeqsUpTo(PdfSources \X (0..MaxTokens), MaxDocs) :
         all_docs = [k \in 1..Len(shape) |->
                        [content |-> TextOf(k, shape[k][2]), source |-> shape[k][1]]]

OnlyBatch ==
    /\ UNCHANGED <<textVars, tableVars, imageVars, ingestVars, loadVars, worldVars, ensureVars,
                   callVars, streamVars, chatVars>>
    /\ BatchUnused

BatchNext ==
    \/ BatchChunk /\ OnlyBatch
    \/ BatchEmbedQuery /\ OnlyBatch
    \/ BatchSave /\ OnlyBatch
    \/ BatchEnsureCollection /\ OnlyBatch
    \/ BatchInsert /\ OnlyBatch
    \/ BatchReturn /\ OnlyBatch

InitBatch ==
    TextIdle /\ TableIdle /\ ImageIdle /\ IngestIdle /\ LoadIdle /\ WorldInit /\ EmbedIdle /\ EnsureIdle /\ CallsIdle /\ BatchInit /\ StreamIdle /\ ChatIdle

SpecBatch == InitBatch /\ [][BatchNext]_vars

----------------------------------------------------------------------------
(* The chat requests that are under way at once, and the sessions they find *)

MaxRequests == 2

Requests == 1..MaxRequests

\* payload.session_id: none, or the name of a session
SessionIds == {"", "s1"}

\* payload.message of the r-th request
MessageOf(r) == <<"q">> \o decimal(r)

\* what astream may give: nothing, or a piece of a word, an empty chunk and
\* another piece of the word
Answers == {<<>>, <<<<"a">>, <<>>, <<"a">>>>}

\* str(exc)
ChainErrors == {<<"timeout">>}

\* the deque of a session in which k exchanges have been kept before
RECURSIVE earlier_history(_)
earlier_history(k) ==
    IF k = 0 THEN <<>>
    ELSE append_exchange(earlier_history(k - 1), <<"q", "0">>, <<<<"a">>>>)

\* no session yet, or the default session after a number of exchanges
ChatInit ==
    /\ chat_memory \in {<<>>} \cup
          {("default" :> earlier_history(k)) :
              k \in {MAX_HISTORY_MESSAGES - 1, MAX_HISTORY_MESSAGES}}
    /\ req_pc = [r \in Requests |-> "idle"]
    /\ req_session = [r \in Requests |-> ""]
    /\ req_message = [r \in Requests |-> <<>>]
    /\ chain_rest = [r \in Requests |-> <<>>]
    /\ assistant_chunks = [r \in Requests |-> <<>>]
    /\ client_disconnected = [r \in Requests |-> FALSE]
    /\ sse_events = [r \in Requests |-> <<>>]

OnlyChat ==
    UNCHANGED <<textVars, tableVars, imageVars, ingestVars, loadVars, worldVars, chunkVars,
                embedVars, ensureVars, callVars, batchVars, streamVars>>

ChatNext ==
    \/ \E r \in Requests, session_id \in SessionIds, answer \in Answers :
         ChatStream(r, session_id, MessageOf(r), answer) /\ OnlyChat
    \/ \E r \in Requests, disconnected \in BOOLEAN :
         AstreamChunk(r, disconnected) /\ OnlyChat
    \/ \E r \in Requests : AstreamEnd(r) /\ OnlyChat
    \/ \E r \in Requests, message \in ChainErrors : AstreamRaise(r, message) /\ OnlyChat
    \/ \E r \in Requests : ResumeAfterError(r) /\ OnlyChat
    \/ \E r \in Requests : CloseGenerator(r) /\ OnlyChat

InitChat ==
    TextIdle /\ TableIdle /\ ImageIdle /\ IngestIdle /\ LoadIdle /\ WorldInit /\ ChunkIdle /\ EmbedIdle /\ EnsureIdle /\ CallsIdle /\ BatchIdle /\ StreamIdle /\ ChatInit

SpecChat == InitChat /\ [][ChatNext]_vars

----------------------------------------------------------------------------
(* C8 *)

\* The blocks that must appear: non-blank text and a centre outside every box
\* the detector returned for the page (boundaries belong to the box).
HasText(block) ==
    Len(block) >= 5 /\ \E k \in 1..Len(block[5]) : block[5][k] \notin Whitespace

CentreInside(block, bb) ==
    /\ bb[1] * 2 <= block[1] + block[3] /\ block[1] + block[3] <= bb[3] * 2
    /\ bb[2] * 2 <= block[2] + block[4] /\ block[2] + block[4] <= bb[4] * 2

InTable(block) ==
    \E j \in 1..Len(table_bboxes) : CentreInside(block, table_bboxes[j])

KeptIdx == {k \in 1..Len(page_blocks) : HasText(page_blocks[k]) /\ ~InTable(page_blocks[k])}

\* the k of KeptIdx with n - 1 smaller members
NthKept(n) == CHOOSE k \in KeptIdx : Cardinality({j \in KeptIdx : j < k}) = n - 1

ExpectedLines == [n \in 1..Cardinality(KeptIdx) |-> strip(page_blocks[NthKept(n)][5])]

\* C8: the page text is exactly the stripped texts of the non-blank blocks whose
\* centre lies outside every table box of the page, in block order, one per line;
\* so a block whose centre lies inside a box (boundary included) contributes nothing.
C8_TableExclusion ==
    tpc = "done" => page_text = join_lines(ExpectedLines)

\* a page with a kept block and a block dropped for a centre on a box boundary
C8_Witness ==
    /\ tpc = "done"
    /\ \E k \in 1..Len(page_blocks) :
         /\ HasText(page_blocks[k])
         /\ InTable(page_blocks[k])
         /\ \E j \in 1..Len(table_bboxes) :
              /\ CentreInside(page_blocks[k], table_bboxes[j])
              /\ page_blocks[k][1] + page_blocks[k][3] = 2 * table_bboxes[j][3]
    /\ Cardinality(KeptIdx) >= 1

----------------------------------------------------------------------------
(* C9, C10 *)

IsBlank(text) == \A k \in 1..Len(text) : text[k] \in Whitespace

IsPageDoc(d) == d.type = "page"

IsTableDoc(d) == d.type = "table"

HasPageText(e) == e.text # <<>>

PageDocs == SelectSeq(xdocs, IsPageDoc)

PagesWithText == SelectSeq(page_log, HasPageText)

\* every page visited so far that has prose has its page-text unit, in page order
PageUnitsEmitted ==
    /\ Len(PageDocs) = Len(PagesWithText)
    /\ \A k \in 1..Len(PageDocs) :
         /\ PageDocs[k].page = PagesWithText[k].page
         /\ PageDocs[k].content = PagesWithText[k].text

\* C9: a batch whose table reconstruction answered nothing but whitespace has no
\* table unit, the page-text units are those of the pages with prose whatever the
\* answers were, and the order values of the units are 0, 1, 2, ... without a gap.
C9_EmptyTableReconstruction ==
    /\ \A c \in 1..Len(llm_calls) :
         (~llm_calls[c].raised /\ IsBlank(llm_calls[c].response)) =>
            ~\E k \in 1..Len(xdocs) :
                IsTableDoc(xdocs[k]) /\ xdocs[k].page_start = llm_calls[c].page_start
    /\ PageUnitsEmitted
    /\ \A k \in 1..Len(xdocs) : xdocs[k].order = k - 1

\* a finished call in which a batch with a page-text unit got a whitespace-only
\* answer and a later batch emitted the next unit
C9_Witness ==
    /\ xpc = "done"
    /\ \E c \in 1..Len(llm_calls) :
         /\ ~llm_calls[c].raised
         /\ llm_calls[c].response # <<>>
         /\ IsBlank(llm_calls[c].response)
         /\ \E k \in 1..(Len(xdocs) - 1) :
              /\ IsPageDoc(xdocs[k])
              /\ xdocs[k].page \in llm_calls[c].page_start..llm_calls[c].page_end
              /\ IsPageDoc(xdocs[k + 1])
              /\ xdocs[k + 1].page > llm_calls[c].page_end

\* C10: a failed table-reconstruction call costs only the table unit of its batch:
\* the call does not end with the exception, and when it has returned every page
\* of the document was visited and every page with prose has its page-text unit.
C10_CaptionFailureIsolated ==
    (\E c \in 1..Len(llm_calls) : llm_calls[c].raised) =>
        /\ xpc # "raised"
        /\ xpc = "done" => (Len(page_log) = total_pages /\ PageUnitsEmitted)

----------------------------------------------------------------------------
(* C2 *)

ImageContents == {img.image : img \in Images} \ {<<>>}

Occurrences(b) == {k \in 1..Len(image_log) : image_log[k].image = b}

CaptionsOf(b) == {k \in 1..Len(caption_calls) : caption_calls[k] = b}

WritesOf(b) == {k \in 1..Len(files_written) : files_written[k].data = b}

\* the units whose stored file holds the bytes b
UnitsOf(b) ==
    {k \in 1..Len(rag_docs) :
        \E w \in WritesOf(b) : files_written[w].path = rag_docs[k].image_path}

FirstPage(b) ==
    image_log[CHOOSE k \in Occurrences(b) : \A j \in Occurrences(b) : k <= j].page

\* C2: within one call no image content is captioned, written or turned into a
\* unit twice; when the call has returned, every non-empty content met has exactly
\* one unit, one caption request and one file, the unit carrying the page of its
\* first occurrence, and a content never met has none.
C2_Dedup ==
    \A b \in ImageContents :
        /\ Cardinality(CaptionsOf(b)) <= 1
        /\ Cardinality(WritesOf(b)) <= 1
        /\ Cardinality(UnitsOf(b)) <= 1
        /\ Occurrences(b) = {} =>
              CaptionsOf(b) = {} /\ WritesOf(b) = {} /\ UnitsOf(b) = {}
        /\ (ipc = "done" /\ Occurrences(b) # {}) =>
              /\ Cardinality(CaptionsOf(b)) = 1
              /\ Cardinality(WritesOf(b)) = 1
              /\ Cardinality(UnitsOf(b)) = 1
              /\ \A k \in UnitsOf(b) : rag_docs[k].page = FirstPage(b)
              /\ Len(rag_docs) = Cardinality({c \in ImageContents : Occurrences(c) # {}})

\* a returned call that met the same bytes on two different pages
C2_Witness ==
    /\ ipc = "done"
    /\ \E j, k \in 1..Len(image_log) :
         /\ j < k
         /\ image_log[j].image = image_log[k].image
         /\ image_log[j].image # <<>>
         /\ image_log[j].page < image_log[k].page

----------------------------------------------------------------------------
(* C1, C6 *)

IsImageDoc(d) == d.type = "image"

\* C1: in the list ingest_pdf returns every unit carries an order value, the order
\* values increase strictly along the list, the page-text and table units come
\* in reading order, and every image unit comes after every page-text or table unit.
C1_OrderTotality ==
    gpc = "done" =>
        /\ \A k \in 1..Len(ingest_docs) : "order" \in DOMAIN ingest_docs[k]
        /\ \A j, k \in 1..Len(ingest_docs) :
             j < k => ingest_docs[j].order < ingest_docs[k].order
        /\ \A j, k \in 1..Len(ingest_docs) :
             (IsImageDoc(ingest_docs[j]) /\ ~IsImageDoc(ingest_docs[k])) => k < j

Attempted == {results[k].path : k \in 1..Len(results)}

Failed == {results[k].path : k \in {j \in 1..Len(results) : ~results[j].ok}}

UnitsFrom(path) == SelectSeq(loaded, LAMBDA d : d.source = path)

\* C6: load_documents never ends with an exception; no unit of a document whose
\* ingestion threw is in its list; when it has returned, every file was attempted
\* and the list is the complete unit lists of the documents that succeeded, one
\* after the other in the order of the files.
C6_FailureIsolation ==
    /\ lpc # "raised"
    /\ \A k \in 1..Len(loaded) : loaded[k].source \notin Failed
    /\ lpc = "done" =>
         /\ Attempted = 1..n_files
         /\ Len(results) = n_files
         /\ \A k \in 1..Len(results) :
              results[k].ok => UnitsFrom(results[k].path) = results[k].docs
         /\ \A j, k \in 1..Len(loaded) : j < k => loaded[j].source <= loaded[k].source

\* a returned run in which a document failed after units of it had been extracted
\* and a later document succeeded with units
C6_Witness ==
    /\ lpc = "done"
    /\ \E j, k \in 1..Len(results) :
         /\ j < k
         /\ ~results[j].ok
         /\ results[j].partial > 0
         /\ results[k].ok
         /\ results[k].docs # <<>>

----------------------------------------------------------------------------
(* C7 *)

\* the input units a chunk has text of
UnitsIn(chunk) == {chunk.content[j][1] : j \in 1..Len(chunk.content)}

\* C7 as claimed: every chunk is made of the text of one input unit and carries
\* the source of that unit.
C7_ChunkCarriesUnitSource ==
    \A k \in 1..Len(split_docs) :
        \E u \in 1..Len(all_docs) :
            /\ UnitsIn(split_docs[k]) \subseteq {u}
            /\ split_docs[k].source = all_docs[u].source

\* C7 as amended: every chunk is made of the text of one input unit; from
\* build_semantic_chunks_per_doc it carries the source of that unit, from
\* chunk_document the source_name of the call.
C7_ChunkProvenance ==
    \A k \in 1..Len(split_docs) :
        \E u \in 1..Len(all_docs) :
            /\ UnitsIn(split_docs[k]) \subseteq {u}
            /\ chunk_fn = "per_doc" => split_docs[k].source = all_docs[u].source
            /\ chunk_fn = "chunk_document" => split_docs[k].source = source_name

\* a returned call of build_semantic_chunks_per_doc on units of two sources,
\* each of which gave a chunk
C7_Witness ==
    /\ cpc = "done"
    /\ chunk_fn = "per_doc"
    /\ \E j, k \in 1..Len(split_docs) :
         /\ split_docs[j].source # split_docs[k].source
         /\ split_docs[j].content # <<>>
         /\ split_docs[k].content # <<>>

----------------------------------------------------------------------------
(* C3, C4, C5 *)

\* the run came to the end of the try block: no stage raised
Succeeded == epc = "completed_100" \/ (epc = "end" /\ exception = NoException)

\* a stage raised and the exception was handled
RunFailed == exception # NoException /\ epc \in {"error_0", "end", "closed"}

StageRank(stage) == CHOOSE r \in 1..Len(Stages) : Stages[r] = stage

EventsOfStage(stage) == {k \in 1..Len(events) : events[k].stage = stage}

----------------------------------------------------------------------------
(* C11 *)

\* the stripped texts of the blocks of a page that have a text that is not blank
RECURSIVE NonBlankTexts(_)
NonBlankTexts(blocks) ==
    IF blocks = <<>> THEN <<>>
    ELSE LET block == Head(blocks)
         IN  IF Len(block) >= 5 /\ ~IsBlank(block[5])
             THEN <<strip(block[5])>> \o NonBlankTexts(Tail(blocks))
             ELSE NonBlankTexts(Tail(blocks))

\* the page-text units of the list, for a page
PageUnitsOf(p) == {k \in 1..Len(xdocs) : IsPageDoc(xdocs[k]) /\ xdocs[k].page = p}

\* C11: the text of a page whose table detection raised is the text of all its
\* non-blank blocks; the text of a page whose detection did not raise leaves out
\* the blocks in its own table boxes, whatever happened on other pages; each
\* page with text has its unit; the call is only left by an exception of opening
\* the file or of the table reconstruction; and a call that returns has visited
\* every page.
C11_DetectionFailureFailsOpen ==
    /\ \A k \in 1..Len(page_log) :
          LET e == page_log[k]
          IN  /\ e.layout.raises => e.text = join_lines(NonBlankTexts(e.layout.blocks))
              /\ ~e.layout.raises =>
                     e.text = extract_page_text_excluding_tables(e.layout.blocks,
                                                                 e.layout.tables)
              /\ e.text # <<>> =>
                     \E u \in PageUnitsOf(e.page) : xdocs[u].content = e.text
    /\ xpc = "raised" =>
          \/ total_pages = 0
          \/ llm_calls # <<>> /\ llm_calls[Len(llm_calls)].raised
    /\ xpc = "done" => Len(page_log) = total_pages

\* a call that returned, in which the detection raised on a page with a table
\* and text in it, and a later page of the same batch had its table text left out
C11_Witness ==
    /\ xpc = "done"
    /\ \E j, k \in 1..Len(page_log) :
         /\ j < k
         /\ k <= batch_size
         /\ page_log[j].layout = UndetectedPage
         /\ page_log[j].text = <<"a", "\n", "b", "\n", "c">>
         /\ page_log[k].layout = MixedPage
         /\ page_log[k].text = <<"a">>
         /\ PageUnitsOf(page_log[j].page) # {}
         /\ PageUnitsOf(page_log[k].page) # {}

----------------------------------------------------------------------------
(* C12 *)

\* C12: when a run is over, by its last event having been taken or by the
\* consumer closing the generator, the temporary file made for it does not exist.
C12_TempFileRemoved ==
    epc \in {"end", "closed"} => ~temp_on_disk

----------------------------------------------------------------------------
(* C13 *)

\* the batch a unit of the list belongs to, counted from 0
BatchOf(d) ==
    IF IsPageDoc(d) THEN (d.page - 1) \div batch_size ELSE (d.page_start - 1) \div batch_size

\* C13: the counter is the number of units emitted and the unit at list position
\* k has order k - 1; the units of a batch come before those of a later batch;
\* in a batch the page-text units come in page order and before the table unit,
\* of which there is at most one; and the page-text units are those of the
\* pages with prose, so a page without prose takes no order value.
C13_OrderCounter ==
    /\ order_index = Len(xdocs)
    /\ \A k \in 1..Len(xdocs) : xdocs[k].order = k - 1
    /\ \A j, k \in 1..Len(xdocs) :
          j < k =>
             /\ BatchOf(xdocs[j]) <= BatchOf(xdocs[k])
             /\ BatchOf(xdocs[j]) = BatchOf(xdocs[k]) =>
                   /\ IsPageDoc(xdocs[j])
                   /\ IsPageDoc(xdocs[k]) => xdocs[j].page < xdocs[k].page
    /\ Len(PageDocs) = Len(PagesWithText)
    /\ \A k \in 1..Len(PageDocs) : PageDocs[k].page = PagesWithText[k].page

\* a call that returned, in which the first page had no prose, and the table
\* unit of the first batch is followed by a page-text unit of the next batch
C13_Witness ==
    /\ xpc = "done"
    /\ page_log # <<>>
    /\ page_log[1].text = <<>>
    /\ \E k \in 2..(Len(xdocs) - 1) :
         /\ IsPageDoc(xdocs[k - 1])
         /\ IsTableDoc(xdocs[k])
         /\ BatchOf(xdocs[k]) = 0
         /\ IsPageDoc(xdocs[k + 1])
         /\ BatchOf(xdocs[k + 1]) = 1

----------------------------------------------------------------------------
(* C14 *)

\* the document of the scenario: seven pages in batches of five, a table region
\* on pages 2 and 6 only, the same image on pages 1 and 4 and no other image
IsScenarioDocument ==
    /\ total_pages = 7
    /\ batch_size = 5
    /\ Len(page_log) = 7
    /\ \A k \in 1..Len(page_log) :
          page_log[k].layout = IF k \in {2, 6} THEN MixedPage ELSE ProsePage
    /\ Len(llm_calls) = 2
    /\ \A c \in 1..Len(llm_calls) : ~IsBlank(llm_calls[c].response)
    /\ Len(image_log) = 2
    /\ image_log[1].page = 1
    /\ image_log[2].page = 4
    /\ image_log[1].image = image_log[2].image

\* the kind, order and pages of a unit; an image unit has no order
UnitShape(d) ==
    IF IsPageDoc(d) THEN <<"page", d.order, d.page, d.page>>
    ELSE IF IsTableDoc(d) THEN <<"table", d.order, d.page_start, d.page_end>>
    ELSE <<"image", d.page>>

\* C14: ingest_pdf on the document of the scenario returns page-text units of
\* order 0..4 for pages 1-5, the table unit of order 5 for pages 1-5, page-text
\* units of order 6 and 7 for pages 6 and 7, the table unit of order 8 for pages
\* 6-7, and last the one image unit, of page 1.
C14_SevenPageScenario ==
    (gpc = "done" /\ IsScenarioDocument) =>
        [k \in 1..Len(ingest_docs) |-> UnitShape(ingest_docs[k])] =
            << <<"page", 0, 1, 1>>, <<"page", 1, 2, 2>>, <<"page", 2, 3, 3>>,
               <<"page", 3, 4, 4>>, <<"page", 4, 5, 5>>, <<"table", 5, 1, 5>>,
               <<"page", 6, 6, 6>>, <<"page", 7, 7, 7>>, <<"table", 8, 6, 7>>,
               <<"image", 1>> >>

\* ingest_pdf has returned from the document of the scenario
C14_Witness ==
    /\ gpc = "done"
    /\ IsScenarioDocument
    /\ Len(ingest_docs) = 10
    /\ Len(caption_calls) = 1

----------------------------------------------------------------------------
(* C15 *)

IsEmbeddingEvent(ev) == ev.stage = "embedding"

EmbeddingEvents == SelectSeq(events, IsEmbeddingEvent)

\* the embedding events after the one of the stage start
EmbeddingProgressEvents ==
    IF EmbeddingEvents = <<>> THEN <<>> ELSE Tail(EmbeddingEvents)

\* the chunks embedded so far, counted from 1, after which an event is due
DueChunks == {i \in 1..Len(embedding_vectors) : i % 5 = 0 \/ i = total_chunks}

\* C15: the first embedding event is that of the stage start; after it there is
\* one event for each embedded chunk i that is a multiple of 5 or the last
\* chunk, in the order of the chunks, with chunks_processed = i and
\* total_chunks = N, and no other; once the storing stage is entered there are
\* ceil(N / 5) of them.
C15_EmbeddingCadence ==
    /\ EmbeddingEvents # <<>> =>
          /\ EmbeddingEvents[1].chunks_processed = 0
          /\ EmbeddingEvents[1].total_chunks = total_chunks
    /\ Len(EmbeddingProgressEvents) = Cardinality(DueChunks)
    /\ \A k \in 1..Len(EmbeddingProgressEvents) :
          /\ EmbeddingProgressEvents[k].chunks_processed \in DueChunks
          /\ EmbeddingProgressEvents[k].total_chunks = total_chunks
          /\ k > 1 => EmbeddingProgressEvents[k - 1].chunks_processed
                          < EmbeddingProgressEvents[k].chunks_processed
    /\ EventsOfStage("storing") # {} =>
          Len(EmbeddingProgressEvents) = (total_chunks + 4) \div 5

\* the storing stage is entered after six chunks, with the events of the fifth
\* and of the sixth chunk
C15_Witness ==
    /\ EventsOfStage("storing") # {}
    /\ total_chunks = 6
    /\ Len(EmbeddingProgressEvents) = 2
    /\ EmbeddingProgressEvents[1].chunks_processed = 5
    /\ EmbeddingProgressEvents[2].chunks_processed = 6

----------------------------------------------------------------------------
(* C16 *)

\* the band of percentages a stage owns
Band(stage) ==
    CASE stage = "downloading" -> 0..10
      [] stage = "loading" -> 10..20
      [] stage = "chunking" -> 20..30
      [] stage = "embedding" -> 30..90
      [] stage = "storing" -> 90..100
      [] stage = "completed" -> {100}

----------------------------------------------------------------------------
(* C17 *)

\* C17: the error event carries the progress_percent of the event emitted
\* before it.
C17_ErrorAtCurrentProgress ==
    \A k \in 2..Len(events) :
        events[k].stage = "error" =>
            events[k].progress_percent = events[k - 1].progress_percent

----------------------------------------------------------------------------
(* C18 *)

\* the error code the place of the failure stands for
CodeOfOrigin ==
    CASE exception.origin = "download" -> "S3_DOWNLOAD_ERROR"
      [] exception.origin = "load"
           /\ lower_fragment(temp_file_path.suffix) \notin {".txt", ".pdf"} ->
               "UNSUPPORTED_FILE_TYPE"
      [] exception.origin \in {"ensure", "insert"} -> "WEAVIATE_ERROR"
      [] OTHER -> "EMBED_ERROR"

\* C18: the error_code of the error event is that of the place the failure came
\* from, whatever the text of the exception.
C18_ErrorCodeByOrigin ==
    \A k \in 1..Len(events) :
        events[k].stage = "error" => events[k].error_code = CodeOfOrigin

----------------------------------------------------------------------------
(* C19 *)

IsInsertCall(call) == call = "insert"

\* the number of insert calls made, the last of which is the one that failed
InsertCalls == Len(SelectSeq(call_log, IsInsertCall))

RecordOf(chunk) ==
    [content |-> chunk.content, source |-> chunk.source,
     vector |-> embed_query(chunk.content)]

----------------------------------------------------------------------------
(* C20 *)

\* C20: no caller of ensure_weaviate_collection ends with an exception, and when
\* every caller has returned the collection exists and the store has accepted
\* at most one create.
C20_ConcurrentEnsure ==
    /\ \A c \in Callers : ens_pc[c] # "raised"
    /\ (\A c \in Callers : ens_pc[c] \in {"idle", "done"}) /\ (\E c \in Callers : ens_pc[c] = "done")
          => /\ collection_exists
             /\ Cardinality({k \in 1..Len(create_log) : create_log[k].accepted}) <= 1

----------------------------------------------------------------------------
(* C21 *)

\* C21: in sequential use of ensure_weaviate_collection no call raises, the
\* collection exists once a call has returned, create is invoked at most once
\* and only by a call that found the name absent, and no step taken while the
\* collection exists changes the store.
C21_SequentialIdempotent ==
    /\ [](/\ \A c \in Callers : ens_pc[c] # "raised"
          /\ \A c \in Callers : ens_pc[c] = "done" => collection_exists
          /\ \A c \in Callers : ens_pc[c] = "create" => ~ens_existing[c]
          /\ Len(create_log) <= 1)
    /\ [][collection_exists => UNCHANGED <<collection_exists, create_log, records>>]_vars

\* one call created the collection and a later call of another caller found it
C21_Witness ==
    \E c, d \in Callers :
        /\ c # d
        /\ create_log = <<[caller |-> c, accepted |-> TRUE]>>
        /\ ens_pc[c] = "done"
        /\ ens_pc[d] = "done"
        /\ ens_existing[d]

----------------------------------------------------------------------------
(* C22 *)

\* the contents of the images of call k's document that have bytes
ContentsOf(k) ==
    {call_images[k][n].image : n \in 1..Len(call_images[k])} \ {<<>>}

\* C22: whatever other calls of build_image_docs_from_pdf_with_ai have recorded,
\* a call that returns holds exactly one image unit for every distinct image
\* of its own document.
C22_DedupSetPerCall ==
    \A k \in DOMAIN call_pc :
        call_pc[k] = "done" =>
            /\ {call_docs[k][n].image_hash : n \in 1..Len(call_docs[k])}
                  = {image_hash(b) : b \in ContentsOf(k)}
            /\ Len(call_docs[k]) = Cardinality(ContentsOf(k))

\* two calls on different documents that hold the same image have both returned,
\* the second having met the image after the first recorded it
C22_Witness ==
    /\ DOMAIN call_pc = 1..MaxCalls
    /\ \E j, k \in 1..MaxCalls :
        /\ call_path[j] # call_path[k]
        /\ call_pc[j] = "done"
        /\ call_pc[k] = "done"
        /\ ContentsOf(j) \cap ContentsOf(k) # {}
        /\ Len(call_docs[j]) > 0
        /\ Len(call_docs[k]) > 0

----------------------------------------------------------------------------
(* C23 *)

\* the image the image loop is about to visit has no bytes
AtEmptyStream == ipc = "image" /\ page_images[image_index + 1].image = <<>>

\* C23: the visit of an image without bytes adds no unit, sends no caption
\* request, writes no file and leaves the dedup set alone, does not raise, and
\* the loop goes on to the next image; the hash of the empty stream is never in
\* the dedup set.
C23_EmptyStreamSkipped ==
    /\ [](image_hash(<<>>) \notin seen_hashes)
    /\ [][AtEmptyStream =>
            /\ UNCHANGED <<rag_docs, caption_calls, files_written, seen_hashes>>
            /\ ipc' \in {"image", "page"}
            /\ image_index' = image_index + 1]_vars

\* a returned call that met an image without bytes and made a unit of a later image
C23_Witness ==
    /\ ipc = "done"
    /\ \E j, k \in 1..Len(image_log) :
         /\ j < k
         /\ image_log[j].image = <<>>
         /\ image_log[k].image # <<>>
         /\ \E n \in 1..Len(rag_docs) : rag_docs[n].image_hash = image_hash(image_log[k].image)

----------------------------------------------------------------------------
(* C24 *)

EmbedQueryCalls == {k \in 1..Len(call_log) : call_log[k] = "embed_query"}

----------------------------------------------------------------------------
(* C25 *)

\* save_chunks_and_embeddings was called and did not write all of its files
ArtifactFailed ==
    /\ bpc \notin {"idle", "start", "embed"}
    /\ Len(embedding_vectors) = Len(split_docs)
    /\ Len(artifacts) < Len(artifact_files(save_flags))

\* C25: a debug file that could not be written does not end the run of
\* build_vectorstore with an exception.
C25_ArtifactFailureTolerated == ArtifactFailed => bpc # "raised"

----------------------------------------------------------------------------
(* C26 *)

\* C26: with an image output directory that is not absolute or cannot be
\* created, no page is extracted, no caption is requested and no file is
\* written, and a directory run does not record the failure of a document and
\* go on to the next one.
C26_ConfigErrorFatal ==
    ~image_dir_ok =>
        /\ page_log = <<>>
        /\ caption_calls = <<>>
        /\ files_written = <<>>
        /\ results = <<>>

----------------------------------------------------------------------------
(* C27 *)

----------------------------------------------------------------------------
(* C28 *)

\* the token a of the input comes before the token b: an earlier unit, or the
\* same unit and an earlier place in its text
TokenBefore(a, b) == a[1] < b[1] \/ (a[1] = b[1] /\ a[2] < b[2])

\* C28: in the list a chunker returns, all text of an earlier chunk comes before
\* all text of a later chunk in the input: the chunks of a unit keep the order
\* of its text and the chunks of an earlier unit come before those of a later.
C28_ChunkOrder ==
    \A j, k \in 1..Len(split_docs) :
        j < k =>
            \A m \in 1..Len(split_docs[j].content), n \in 1..Len(split_docs[k].content) :
                TokenBefore(split_docs[j].content[m], split_docs[k].content[n])

\* a returned list with two chunks of the first unit and a chunk of the second
C28_Witness ==
    /\ cpc = "done"
    /\ Len(split_docs) > 2
    /\ UnitsIn(split_docs[1]) = {1}
    /\ UnitsIn(split_docs[2]) = {1}
    /\ UnitsIn(split_docs[3]) = {2}

----------------------------------------------------------------------------
(* C29 *)

\* C29: no two files written by the image extraction of one directory run have
\* the same name.
C29_NamesCollisionFree ==
    \A j, k \in 1..Len(files_written) :
        j # k => files_written[j].path # files_written[k].path

\* the image units of the list load_documents is building
ImageUnits == {k \in 1..Len(loaded) : loaded[k].type = "image"}

\* a returned run that stored two images of one page, images of two pages of one
\* document and images of two documents
C29_Witness ==
    /\ lpc = "done"
    /\ \E j, k \in ImageUnits :
         /\ j # k
         /\ loaded[j].source = loaded[k].source
         /\ loaded[j].page = loaded[k].page
    /\ \E j, k \in ImageUnits :
         /\ loaded[j].source = loaded[k].source
         /\ loaded[j].page # loaded[k].page
    /\ \E j, k \in ImageUnits : loaded[j].source # loaded[k].source

----------------------------------------------------------------------------
(* C30 *)

\* C30: once the consumer of the embedding-progress stream has disconnected, no
\* further call is made to S3, the embedding model or the store.
C30_NoWorkAfterDisconnect == [][consumer_gone => call_log' = call_log]_vars

----------------------------------------------------------------------------
(* C31 *)

\* the number of calls of one kind the run has made
CallCount(op) == Cardinality({k \in 1..Len(call_log) : call_log[k] = op})

\* the call that raised, if the exception came from a call of that kind
FailedCall(origin) == IF exception.origin = origin THEN 1 ELSE 0

----------------------------------------------------------------------------
(* C32 *)

\* C32: what load_documents returns tells its caller how many documents were
\* processed and how many failed.
C32_CountsReported ==
    lpc = "done" =>
        /\ "processed" \in DOMAIN load_documents_return
        /\ "failed" \in DOMAIN load_documents_return
        /\ load_documents_return.processed = Cardinality(Attempted \ Failed)
        /\ load_documents_return.failed = Cardinality(Failed)

----------------------------------------------------------------------------
(* C33 *)

TableDocs == SelectSeq(xdocs, IsTableDoc)

\* the first and the last page, counted from 1, of the c-th batch
BatchFirst(c) == (c - 1) * batch_size + 1

BatchLast(c) == IF c * batch_size <= total_pages THEN c * batch_size ELSE total_pages

\* C33: the pages are visited once each in document order; with reconstruction
\* the c-th model call is for the pages of the c-th batch, a table unit carries
\* the first and last page of the batch of its call and no batch has two; a call
\* that returned has visited every page and made ceil(P / B) model calls;
\* without reconstruction there is no model call and no table unit.
C33_Batches ==
    /\ Len(page_log) <= total_pages
    /\ \A k \in 1..Len(page_log) : page_log[k].page = k
    /\ \A c \in 1..Len(llm_calls) :
          /\ llm_calls[c].page_start = BatchFirst(c)
          /\ llm_calls[c].page_end = BatchLast(c)
          /\ BatchFirst(c) <= BatchLast(c)
    /\ \A k \in 1..Len(TableDocs) :
          /\ \E c \in 1..Len(llm_calls) :
                /\ TableDocs[k].page_start = BatchFirst(c)
                /\ TableDocs[k].page_end = BatchLast(c)
          /\ \A j \in 1..Len(TableDocs) :
                j # k => TableDocs[j].page_start # TableDocs[k].page_start
    /\ xpc = "done" =>
          /\ Len(page_log) = total_pages
          /\ reconstruct =>
                Len(llm_calls) = (total_pages + batch_size - 1) \div batch_size
    /\ ~reconstruct => (llm_calls = <<>> /\ TableDocs = <<>>)

\* a call that returned after a full batch and a shorter last batch, each of
\* which has its table unit
C33_Witness ==
    /\ xpc = "done"
    /\ batch_size > 1
    /\ total_pages = batch_size + 1
    /\ Len(TableDocs) = 2
    /\ TableDocs[2].page_start = total_pages
    /\ TableDocs[2].page_end = total_pages

----------------------------------------------------------------------------
(* C34 *)

\* build_image_docs_from_pdf_with_ai has been called
ImagesStarted == ipc # "idle"

\* C34: the image extraction is called only after the table and text extraction
\* has returned; the two get the same client, which is the one passed in or the
\* one client built when none was passed; after a table and text extraction that
\* raised, the image extraction is not called, no file has been written and no
\* caption of an image has been asked for.
C34_ExtractionBeforeImages ==
    /\ (ImagesStarted \/ caption_calls # <<>> \/ files_written # <<>>) =>
            (xpc = "done" /\ gpc \in {"images", "done", "raised"})
    /\ Len(llm_passed) <= 2
    /\ \A k \in 1..Len(llm_passed) :
          /\ llm_passed[k].llm = llm
          /\ llm_passed[k].llm # NoLlm
          /\ llm_passed[k].callee =
                IF k = 1 THEN "extract_tables_and_text_in_order"
                ELSE "build_image_docs_from_pdf_with_ai"
    /\ ImagesStarted <=> Len(llm_passed) = 2
    /\ clients_built <= 1
    /\ llm = SuppliedLlm => clients_built = 0
    /\ llm.kind = "built" => (clients_built = 1 /\ llm = build_bedrock_vision_client(1))
    /\ xpc = "raised" =>
          /\ ~ImagesStarted
          /\ caption_calls = <<>>
          /\ files_written = <<>>
          /\ gpc \in {"extract", "raised"}

\* ingest_pdf has raised, with a client it built, because the extraction of the
\* second batch raised after units of the first batch had been made
C34_Witness ==
    /\ gpc = "raised"
    /\ xpc = "raised"
    /\ xdocs # <<>>
    /\ llm.kind = "built"
    /\ Len(llm_passed) = 1

\* ingest_pdf has returned after both extractions were called with the client
\* passed in, and an image was captioned and written
C34_BothExtractionsRan ==
    /\ gpc = "done"
    /\ llm = SuppliedLlm
    /\ Len(llm_passed) = 2
    /\ files_written # <<>>

----------------------------------------------------------------------------
(* C35 *)

\* the calls made to the vector store so far
StoreCalls == CallCount("ensure_collection") + CallCount("insert")

\* the stages before the storing stage
EarlyStages == {"download", "load", "chunk", "embed", "event"}

\* C35: when a call to the vector store has been made, every chunk has been
\* embedded and no embedding call follows a store call; as long as no store call
\* has been made the collection and its records are as they were, and a run that
\* failed while downloading, loading, chunking or embedding has made no store
\* call and inserted nothing.
C35_StoreAfterEmbedding ==
    /\ [](/\ StoreCalls > 0 =>
                /\ Len(embedding_vectors) = Len(split_docs)
                /\ CallCount("embed_query") = Len(split_docs)
                /\ \A j, k \in 1..Len(call_log) :
                      (j < k /\ call_log[k] = "embed_query") =>
                          call_log[j] \notin {"ensure_collection", "insert"}
          /\ exception.origin \in EarlyStages => (StoreCalls = 0 /\ records = <<>>))
    /\ [][StoreCalls' = 0 =>
              (collection_exists' = collection_exists /\ records' = records)]_vars

\* the generator has ended after the embedding of the third chunk failed, and
\* the collection, which was not there, has not been made
C35_Witness ==
    /\ epc = "end"
    /\ exception.origin = "embed"
    /\ Len(embedding_vectors) = 2
    /\ ~collection_exists
    /\ records = <<>>

----------------------------------------------------------------------------
(* C36 *)

\* the loops have raised at an image
RaisedAtImage == ipc = "raised" /\ image_log # <<>>

\* the file name of the image the loops are at
CurrentImageName ==
    image_name(img_path, page_index, image_index, page_images[image_index + 1].ext)

\* C36: the hash of every image a caption was asked for is in the dedup set, one
\* hash for each request; every file written has its unit; as long as the call
\* has not raised, and so when it returns, there are as many caption requests as
\* files, units and hashes; when it raised at an image, the last request is for
\* that image, which is the last one visited and has no file.
C36_HashCaptionFile ==
    /\ \A k \in 1..Len(caption_calls) : image_hash(caption_calls[k]) \in seen_hashes
    /\ Len(caption_calls) = Cardinality(seen_hashes)
    /\ Len(files_written) = Len(rag_docs)
    /\ ipc # "raised" => Len(caption_calls) = Len(files_written)
    /\ RaisedAtImage =>
          /\ Len(caption_calls) = Len(files_written) + 1
          /\ image_log[Len(image_log)].image = caption_calls[Len(caption_calls)]
          /\ \A k \in 1..Len(files_written) : files_written[k].path # CurrentImageName

\* the call raised at its second new image, after the first was captioned and
\* written
C36_Witness ==
    /\ RaisedAtImage
    /\ Len(caption_calls) = 2
    /\ Len(files_written) = 1
    /\ Len(rag_docs) = 1

----------------------------------------------------------------------------
(* C37 *)

AllSessions == {session_of(session_id) : session_id \in SessionIds}

\* the history of a session; a session that was never asked for has none
HistoryOf(memory, session) == IF session \in DOMAIN memory THEN memory[session] ELSE <<>>

WellFormedHistory(history) ==
    /\ Len(history) % 2 = 0
    /\ Len(history) <= 10
    /\ \A i \in 1..Len(history) :
          history[i].role = IF i % 2 = 1 THEN "user" ELSE "assistant"

\* in this step the stream of request r ends, having sent a chunk and met neither
\* an exception nor a client that has gone
CompletesNow(r) ==
    /\ AwaitingChain(r)
    /\ req_pc'[r] = "done"
    /\ ~client_disconnected'[r]
    /\ assistant_chunks[r] # <<>>

\* the history of the session after the step is the one before it with the
\* exchange of request r at its end, cut at the front to the length allowed
ExchangeAppended(session, r) ==
    LET old == HistoryOf(chat_memory, session)
        new == HistoryOf(chat_memory', session)
        n == Len(new)
        dropped == Len(old) + 2 - n
    IN  /\ n = IF Len(old) + 2 <= 10 THEN Len(old) + 2 ELSE 10
        /\ new[n - 1] = [role |-> "user", content |-> req_message[r]]
        /\ new[n] = [role |-> "assistant", content |-> join_chunks(assistant_chunks[r])]
        /\ \A i \in 1..(n - 2) : new[i] = old[i + dropped]

\* C37: the history of every session has an even length of at most ten and
\* goes user, assistant, user, ...; a step in which a stream ends after a chunk,
\* without exception and without disconnect, puts the exchange of that stream
\* at the end of the history of its session, and no other step changes a history.
C37_HistoryPairs ==
    /\ [](\A session \in DOMAIN chat_memory : WellFormedHistory(chat_memory[session]))
    /\ [][\A session \in AllSessions :
            IF \E r \in Requests : CompletesNow(r) /\ req_session[r] = session
            THEN \A r \in Requests :
                   (CompletesNow(r) /\ req_session[r] = session) => ExchangeAppended(session, r)
            ELSE HistoryOf(chat_memory', session) = HistoryOf(chat_memory, session)]_vars

\* two requests of the default session were under way at once and the second
\* ended first: its exchange is before that of the first, and the oldest
\* exchanges of the full history have been dropped
C37_Witness ==
    /\ \A r \in {1, 2} : req_pc[r] = "done" /\ req_session[r] = "default"
    /\ Len(HistoryOf(chat_memory, "default")) = 10
    /\ chat_memory["default"][7].content = MessageOf(2)
    /\ chat_memory["default"][9].content = MessageOf(1)
    /\ chat_memory["default"][10].content = <<"a", " ", "a">>

----------------------------------------------------------------------------
(* C38 *)

\* the places of the error events among the events of request r
ErrorEvents(r) ==
    {k \in 1..Len(sse_events[r]) : \E message \in ChainErrors : sse_events[r][k] = sse_error(message)}

\* C38: the step in which the chain raises yields one error event and leaves
\* the histories alone; the error event is the only one of its stream and the
\* last, after the events of the chunks that were sent; the stream yields
\* nothing more, and no later step of it changes a history.
C38_ErrorEvent ==
    /\ [](\A r \in DOMAIN req_pc :
            /\ Cardinality(ErrorEvents(r)) <= 1
            /\ req_pc[r] = "error_yielded" => ErrorEvents(r) # {}
            /\ ErrorEvents(r) # {} =>
                  /\ ErrorEvents(r) = {Len(sse_events[r])}
                  /\ req_pc[r] \in {"error_yielded", "done", "closed"}
                  /\ Len(assistant_chunks[r]) = Len(sse_events[r]) - 1
                  /\ \A k \in 1..Len(assistant_chunks[r]) :
                        sse_events[r][k] = sse(assistant_chunks[r][k]))
    /\ [][\A r \in Requests :
            /\ (req_pc[r] # "error_yielded" /\ req_pc'[r] = "error_yielded") =>
                  /\ \E message \in ChainErrors :
                        sse_events'[r] = Append(sse_events[r], sse_error(message))
                  /\ chat_memory' = chat_memory
            /\ (ErrorEvents(r) # {} /\ req_pc'[r] # req_pc[r]) =>
                  (chat_memory' = chat_memory /\ sse_events' = sse_events)]_vars

\* the chain raised after two chunks had been sent, and the stream has ended
C38_Witness ==
    /\ req_pc[1] = "done"
    /\ Len(sse_events[1]) = 3
    /\ ErrorEvents(1) = {3}
    /\ Len(assistant_chunks[1]) = 2
    /\ HistoryOf(chat_memory, req_session[1]) = <<>>

----------------------------------------------------------------------------
(* C39 *)

NonErrorEvents == {k \in 1..Len(events) : events[k].stage # "error"}

\* the events from the one that ends the chunking stage on
AfterChunking ==
    {k \in NonErrorEvents :
        \E c \in EventsOfStage("chunking") : events[c].progress_percent = 30 /\ c <= k}

====
